---- MODULE Spec2Model ----
(***************************************************************************)
(* Model of the script/GUI handshake of IonControl's ScriptHandler          *)
(* (src/scripting/ScriptHandler.py).  The GUI thread runs the handlers of   *)
(* ScriptHandler one at a time; script-side threads emit requests and block *)
(* on the Script's wait conditions.                                         *)
(***************************************************************************)
EXTENDS Integers, Sequences, FiniteSets, TLC

\* ---------------------------------------------------------------- bounds
NumThreads == 1
MaxScans == 1
MaxCommands == 2
MaxData == 1
MaxTraces == 2
MaxPoints == 3

Threads == 1..NumThreads

\* ---------------------------------------------------------------- values
\* Python's None where an object is expected; objects are records with a type
None == [type |-> "None"]

\* no wait condition, no signal
NoCv == "none"

\* a message is a tuple of strings, str.format's pieces in order; None as a message
NoMessage == <<"None">>

\* the wait conditions the handler signals on the Script
CondVars ==
  {"guiWait", "pauseWait", "scanWait", "dataWait", "allDataWait", "analysisWait", "genericWait"}

VARIABLES
  script,   \* fields of the Script object the handler reads and writes
  ui,       \* GUI-owned state reached through experimentUi, and the handler's own dicts
  thr,      \* per script-side thread: position and the wait condition it blocks on
  emitted,  \* per script-side thread: the signal it emitted that no slot has handled yet
  log,      \* what the latest script command (slot call) did, in order
  gui,      \* the GUI thread: "idle" between handler calls, "blocked" once a call waits
            \* for script.mutex and never gets it
  srv,      \* the pulser ServerProcess: its fields, its pipe and queues, its position in run
  atStart,  \* history: the globals as they were when the script was last started
  dc        \* the four rod DC controller behind DCVoltageControl, and what the last
            \* setValue call did

vars == <<script, ui, thr, emitted, log, gui, srv, atStart, dc>>

\* ------------------------------------------------- the state a handler runs on
\* A handler is a function of a "world": the program state plus the GUI thread's
\* hold on script.mutex and the ordered list of what the call has done so far.
World ==
  [script |-> script, ui |-> ui, thr |-> thr, mutex |-> FALSE, hung |-> FALSE, events |-> <<>>]

\* one thing a handler call does: what, on which object, and whether the GUI
\* thread holds script.mutex at that point
Event(kind, arg, w) == [ev |-> kind, arg |-> arg, held |-> w.mutex]

\* QtCore.QMutexLocker(self.script.mutex): entering and leaving the with block.
\* script.mutex is a plain QMutex: a thread that locks it while it holds it
\* waits for itself and never goes on
Lock(w) ==
  [w EXCEPT !.mutex = TRUE, !.hung = w.mutex, !.events = Append(@, Event("lock", None, w))]

Unlock(w) == [w EXCEPT !.mutex = FALSE, !.events = Append(@, Event("unlock", None, w))]

\* QWaitCondition.wakeAll(): every thread blocked on cv stops being blocked
wakeAll(w, cv) ==
  [w EXCEPT !.thr = [t \in Threads |->
                       IF w.thr[t].pc = "wait" /\ w.thr[t].cv = cv
                         THEN [pc |-> "woken", cv |-> cv]
                         ELSE w.thr[t]],
            !.events = Append(@, Event("wake", [type |-> "QWaitCondition", name |-> cv], w))]

RECURSIVE WakeEach(_, _)
WakeEach(w, cvs) ==
  IF cvs = <<>> THEN w ELSE WakeEach(wakeAll(w, Head(cvs)), Tail(cvs))

\* writeToConsole(message, error): the console only grows, so the call is
\* kept as an event of the handler call that made it
writeToConsole(w, message, error) ==
  [w EXCEPT !.events = Append(@, Event("console", [type |-> "console", message |-> message, error |-> error], w))]

\* ------------------------------------------------------- GUI button handlers
\* the wait conditions onStopScript signals, in order
StopWakes ==
  <<"guiWait", "pauseWait", "scanWait", "dataWait", "analysisWait", "genericWait">>

\* an onStopScript that leaves paused as it is
onStopScript_keepsPaused(w) ==
  LET w1 == Lock(w)
      w2 == [w1 EXCEPT !.script.stopped = TRUE,
                       !.script.waitOnScan = FALSE,
                       !.script.repeat = FALSE,
                       !.script.analysisReady = TRUE,
                       !.script.dataReady = TRUE,
                       !.script.allDataReady = TRUE]
      w3 == WakeEach(w2, StopWakes)
      w4 == [w3 EXCEPT !.events = Append(@, Event("saveAndUpdateFileList", None, w3))]
  IN  Unlock(w4)

onStopScript(w) ==
  LET w1 == Lock(w)
      w2 == [w1 EXCEPT !.script.stopped = TRUE,
                       !.script.paused = FALSE,
                       !.script.waitOnScan = FALSE,
                       !.script.repeat = FALSE,
                       !.script.analysisReady = TRUE,
                       !.script.dataReady = TRUE,
                       !.script.allDataReady = TRUE]
      w3 == WakeEach(w2, StopWakes)
      w4 == [w3 EXCEPT !.events = Append(@, Event("saveAndUpdateFileList", None, w3))]
  IN  Unlock(w4)

\* script.isRunning(): the script's thread has been started and has not finished
isRunning(w) == \E t \in Threads : w.thr[t].pc \in {"run", "wait", "woken"}

\* script.start(): the thread begins to run; what it finds is kept
start(w) ==
  [w EXCEPT !.thr = [t \in Threads |-> [pc |-> "run", cv |-> NoCv]],
            !.events = Append(@, Event("start",
                                       [type |-> "found", paused |-> w.script.paused,
                                        stopped |-> w.script.stopped,
                                        exception |-> w.script.exception,
                                        reverts |-> DOMAIN w.ui.globalVariablesRevertDict], w))]

\* an onStartScript that starts the thread before it resets the flags
onStartScript_startsFirst(w) ==
  IF ~isRunning(w)
    THEN LET w1 == [w EXCEPT !.ui.globalVariablesRevertDict = [n \in {} |-> None]]
             w2 == start(Lock(w1))
             w3 == [w2 EXCEPT !.script.paused = FALSE,
                              !.script.stopped = FALSE,
                              !.script.exception = None]
         IN  Unlock(w3)
    ELSE w

onStartScript(w) ==
  IF ~isRunning(w)
    THEN LET w1 == [w EXCEPT !.ui.globalVariablesRevertDict = [n \in {} |-> None]]
             w2 == Lock(w1)
             w3 == [w2 EXCEPT !.script.paused = FALSE,
                              !.script.stopped = FALSE,
                              !.script.exception = None]
         IN  Unlock(start(w3))
    ELSE w

\* an onPauseScript that signals pauseWait whatever paused is
onPauseScript_alwaysWakes(w, paused) ==
  Unlock(wakeAll([Lock(w) EXCEPT !.script.paused = paused], "pauseWait"))

onPauseScript(w, paused) ==
  LET w1 == Lock(w)
      w2 == [w1 EXCEPT !.script.paused = paused]
      w3 == IF ~paused THEN wakeAll(w2, "pauseWait") ELSE w2
  IN  Unlock(w3)

onRepeat(w, repeat) ==
  Unlock([Lock(w) EXCEPT !.script.repeat = repeat])

\* ------------------------------------------------ experiment event handlers
\* an onScanStateChanged that marks all data ready when the scan goes idle
onScanStateChanged_marksReady(w, state) ==
  LET w1 == Lock(w)
      w2 == [w1 EXCEPT !.script.scanStatus = state]
      w3 == IF state = "idle"
              THEN wakeAll([writeToConsole(w2, <<"scan finished at ", "now">>, FALSE)
                              EXCEPT !.script.scanIsRunning = FALSE,
                                     !.script.allDataReady = TRUE], "scanWait")
              ELSE [w2 EXCEPT !.script.scanIsRunning = TRUE]
  IN  Unlock(w3)

onScanStateChanged(w, state) ==
  LET w1 == Lock(w)
      w2 == [w1 EXCEPT !.script.scanStatus = state]
      w3 == IF state = "idle"
              THEN wakeAll([writeToConsole(w2, <<"scan finished at ", "now">>, FALSE)
                              EXCEPT !.script.scanIsRunning = FALSE], "scanWait")
              ELSE [w2 EXCEPT !.script.scanIsRunning = TRUE]
  IN  Unlock(w3)

onAnalysisResult(w, allResults) ==
  LET w1 == Lock(w)
      w2 == [w1 EXCEPT !.script.analysisResults = allResults,
                       !.script.analysisReady = TRUE]
  IN  Unlock(wakeAll(w2, "analysisWait"))

\* an onData that raises the flag and signals but keeps the old value
onData_keepsOldValue(w, data) ==
  LET w1 == Lock(w)
      w2 == [w1 EXCEPT !.script.dataReady = TRUE]
  IN  Unlock(wakeAll(w2, "dataWait"))

onData(w, data) ==
  LET w1 == Lock(w)
      w2 == [w1 EXCEPT !.script.data = data,
                       !.script.dataReady = TRUE]
  IN  Unlock(wakeAll(w2, "dataWait"))

onAllData(w, allData) ==
  LET w1 == Lock(w)
      w2 == [w1 EXCEPT !.script.allData = allData,
                       !.script.allDataReady = TRUE]
  IN  Unlock(wakeAll(w2, "allDataWait"))

\* --------------------------------------------------------- script commands
\* registered names (the combo boxes' and dicts' contents) and the names a
\* script may ask for
ScanNames == {"Scan_A", "Scan_C"}

ScanArgs == ScanNames \cup {"Scan_B"}

CameraArgs == {"cam"}

ImagePlotNames == {"image"}

PlotArgs == ImagePlotNames \cup {"noPlot"}

\* exceptions are values: their class and str(e)
ScriptException(message) == [type |-> "ScriptException", msg |-> message]

Exc(type, message) == [type |-> type, msg |-> message]

str(e) == e.msg

\* how a wrapped function ends: it returns (error, message), or it raises
Ret(w, error, message) == [w |-> w, exc |-> None, error |-> error, message |-> message]

Raise(w, e) == [w |-> w, exc |-> e, error |-> FALSE, message |-> NoMessage]

\* func(self, *args, **kwds) comes back into the decorator: with (error, message),
\* or with the exception it raised
Ended(r) ==
  [r.w EXCEPT !.events =
     Append(@, IF r.exc # None
                 THEN Event("raised", r.exc, r.w)
                 ELSE Event("returned", [type |-> "tuple", error |-> r.error, message |-> r.message],
                            r.w))]

\* a truth test that takes only None for false
Truthy_noneOnly(message) == message # NoMessage

\* Python truth of a message: None and '' are false
Truthy(message) == message # NoMessage /\ message # <<>>

\* a try block that reports every failure as ScriptException('') without
\* telling the console
TryBlock_dropsMessage(r) ==
  LET w0 == Ended(r)
  IN  IF r.exc # None THEN [w |-> w0, e |-> r.exc]
      ELSE IF r.error THEN [w |-> w0, e |-> ScriptException(<<>>)]
      ELSE IF Truthy(r.message)
        THEN [w |-> writeToConsole(w0, r.message, FALSE), e |-> None]
      ELSE [w |-> w0, e |-> None]

\* the try block of baseScriptCommand: the world it leaves and the exception
\* that leaves it (None when it completes)
TryBlock(r) ==
  LET w0 == Ended(r)
  IN  IF r.exc # None THEN [w |-> w0, e |-> r.exc]
      ELSE IF r.error /\ Truthy(r.message)
        THEN [w |-> writeToConsole(w0, r.message, TRUE), e |-> ScriptException(r.message)]
      ELSE IF r.error
        THEN [w |-> w0, e |-> ScriptException(<<>>)]
      ELSE IF Truthy(r.message)
        THEN [w |-> writeToConsole(w0, r.message, FALSE), e |-> None]
      ELSE [w |-> w0, e |-> None]

\* the except block: the exception is stored on the script under the mutex
ExceptBlock(w, e) ==
  LET w1 == Lock(w)
      w2 == [w1 EXCEPT !.script.exception = e,
                       !.events = Append(@, Event("exception", e, w1))]
  IN  Unlock(w2)

\* a decorator that signals guiWait at the end of the try block only
baseScriptCommand_noFinally(r) ==
  LET tried == TryBlock(r)
  IN  IF tried.e # None THEN ExceptBlock(tried.w, tried.e) ELSE wakeAll(tried.w, "guiWait")

\* a decorator that signals guiWait before it stores the exception
baseScriptCommand_wakeFirst(r) ==
  LET tried == TryBlock(r)
      woken == wakeAll(tried.w, "guiWait")
  IN  IF tried.e # None THEN ExceptBlock(woken, tried.e) ELSE woken

\* the classes of the exceptions the handlers' code raises: subclasses of
\* Exception all (TypeError: unpacking a result that is no pair)
ExceptionClasses ==
  {"ScriptException", "KeyError", "AttributeError", "SpinnakerException", "TypeError"}

\* an except clause that catches ScriptException only
Caught_onlyScriptException(e) == e.type = "ScriptException"

\* except Exception as e: the clause catches e
Caught(e) == e.type \in ExceptionClasses

\* the decorator scriptCommand: baseScriptCommand run on the outcome r of func;
\* an exception the except clause does not catch leaves the handler after the
\* finally block
baseScriptCommand(r) ==
  LET tried == TryBlock(r)
      caught == IF tried.e # None /\ Caught(tried.e)
                  THEN ExceptBlock(tried.w, tried.e)
                  ELSE tried.w
      woken == wakeAll(caught, "guiWait")
  IN  IF r.w.hung THEN r.w
      ELSE IF tried.e # None /\ ~Caught(tried.e)
        THEN [woken EXCEPT !.events = Append(@, Event("propagated", tried.e, woken))]
      ELSE woken

\* an onSetScan that loads the setting before it looks the name up
func_onSetScan_loadsFirst(w, name) ==
  LET w1 == [w EXCEPT !.ui.scan = name]
  IN  IF name \notin ScanNames
        THEN Ret(w1, TRUE, <<"Scan ", name, " does not exist.">>)
        ELSE Ret(w1, FALSE, <<"Scan set to ", name>>)

func_onSetScan(w, name) ==
  IF name \notin ScanNames
    THEN Ret(w, TRUE, <<"Scan ", name, " does not exist.">>)
    ELSE Ret([w EXCEPT !.ui.scan = name], FALSE, <<"Scan set to ", name>>)

onSetScan(w, name) == baseScriptCommand(func_onSetScan(w, name))

\* Q(value, unit): a quantity of magnitude value in unit
Q(value, unit) == [type |-> "Q", m |-> value, u |-> unit]

GlobalValues == {1, 2}

Units == {"MHz"}

EvaluationNames == {"Eval_A", "Eval_C"}

EvaluationArgs == EvaluationNames \cup {"Eval_B"}

AnalysisNames == {"Fit_A", "Fit_C"}

AnalysisArgs == AnalysisNames \cup {"Fit_B"}

\* d with d[key] = value, the key added when it is new
DictSet(d, key, value) ==
  [k \in DOMAIN d \cup {key} |-> IF k = key THEN value ELSE d[k]]

func_onAddGlobal(w, name, value, unit) ==
  LET magValue == Q(value, unit)
      doesNotExist == name \notin DOMAIN w.ui.globalDict
      w1 == [w EXCEPT !.ui.globalDict = DictSet(@, name, magValue)]
  IN  Ret(w1, FALSE,
          <<"Global variable ", name, IF doesNotExist THEN " created" ELSE " already exists",
            "Global variable ", name, " set to ", ToString(value), " ", unit>>)

onAddGlobal(w, name, value, unit) == baseScriptCommand(func_onAddGlobal(w, name, value, unit))

\* an onSetGlobal that takes the snapshot on every call
func_onSetGlobal_alwaysSnapshots(w, name, value, unit) ==
  LET magValue == Q(value, unit)
  IN  IF name \notin DOMAIN w.ui.globalDict
        THEN Ret(w, TRUE, <<"Global variable ", name, " does not exist.">>)
        ELSE LET w1 == [w EXCEPT !.ui.globalVariablesRevertDict =
                                   DictSet(@, name, w.ui.globalDict[name])]
                 w2 == [w1 EXCEPT !.ui.globalDict = DictSet(@, name, magValue)]
             IN  Ret(w2, FALSE,
                     <<"Global variable ", name, " set to ", ToString(value), " ", unit>>)

func_onSetGlobal(w, name, value, unit) ==
  LET magValue == Q(value, unit)
      doesNotExist == name \notin DOMAIN w.ui.globalDict
  IN  IF doesNotExist
        THEN Ret(w, TRUE, <<"Global variable ", name, " does not exist.">>)
        ELSE LET w1 == IF name \notin DOMAIN w.ui.globalVariablesRevertDict
                         THEN [w EXCEPT !.ui.globalVariablesRevertDict =
                                          DictSet(@, name, w.ui.globalDict[name])]
                         ELSE w
                 w2 == [w1 EXCEPT !.ui.globalDict = DictSet(@, name, magValue)]
             IN  Ret(w2, FALSE,
                     <<"Global variable ", name, " set to ", ToString(value), " ", unit>>)

onSetGlobal(w, name, value, unit) == baseScriptCommand(func_onSetGlobal(w, name, value, unit))

func_onSetEvaluation(w, name) ==
  IF name \notin EvaluationNames
    THEN Ret(w, TRUE, <<"Evaluation ", name, " does not exist.">>)
    ELSE Ret([w EXCEPT !.ui.evaluation = name], FALSE, <<"Evaluation set to ", name>>)

onSetEvaluation(w, name) == baseScriptCommand(func_onSetEvaluation(w, name))

func_onSetAnalysis(w, name) ==
  IF name \notin AnalysisNames
    THEN Ret(w, TRUE, <<"Analysis ", name, " does not exist.">>)
    ELSE Ret([w EXCEPT !.ui.analysis = name], FALSE, <<"Analysis set to ", name>>)

onSetAnalysis(w, name) == baseScriptCommand(func_onSetAnalysis(w, name))

\* an onStartScan that starts the experiment before it clears the flags
func_onStartScan_startsFirst(w, globalOverrides) ==
  LET w1 == [w EXCEPT !.ui.scanNo = @ + 1,
                      !.events = Append(@, Event("onStart", None, w))]
      w2 == Lock(w1)
      w3 == [w2 EXCEPT !.script.scanIsRunning = TRUE,
                       !.script.analysisReady = FALSE,
                       !.script.dataReady = FALSE,
                       !.script.allDataReady = FALSE,
                       !.events = Append(@, Event("clearReady", None, w2))]
      w4 == Unlock(w3)
      w5 == writeToConsole(w4, <<"Scan started at ", "now", " with scan = ", w4.ui.scan>>, FALSE)
  IN  Ret(w5, FALSE, NoMessage)

func_onStartScan(w, globalOverrides) ==
  LET w1 == Lock(w)
      w2 == [w1 EXCEPT !.script.scanIsRunning = TRUE,
                       !.script.analysisReady = FALSE,
                       !.script.dataReady = FALSE,
                       !.script.allDataReady = FALSE,
                       !.events = Append(@, Event("clearReady", None, w1))]
      w3 == Unlock(w2)
      \* experimentUi.onStart(globalOverrides=myGlobalOverrides)
      w4 == [w3 EXCEPT !.ui.scanNo = @ + 1,
                       !.events = Append(@, Event("onStart", None, w3))]
      w5 == writeToConsole(w4, <<"Scan started at ", "now", " with scan = ", w4.ui.scan>>, FALSE)
  IN  Ret(w5, FALSE, NoMessage)

onStartScan(w, globalOverrides) == baseScriptCommand(func_onStartScan(w, globalOverrides))

func_onStopScriptFromScript(w) == Ret(onStopScript(w), FALSE, <<"script stopped">>)

onStopScriptFromScript(w) == baseScriptCommand(func_onStopScriptFromScript(w))

func_onAddCamera(w, camera_name) ==
  IF camera_name \notin w.ui.cameras
    THEN Ret([w EXCEPT !.ui.cameras = @ \cup {camera_name}], FALSE,
             <<"Camera ", camera_name, " added">>)
    ELSE Ret(w, FALSE, <<"Camera ", camera_name, " already exists">>)

onAddCamera(w, camera_name) == baseScriptCommand(func_onAddCamera(w, camera_name))

func_onPlotImage(w, image_array, plotname) ==
  IF plotname \notin ImagePlotNames
    THEN Raise(w, Exc("KeyError", <<plotname>>))
    ELSE Ret([w EXCEPT !.events = Append(@, Event("setImage", image_array, w))],
             FALSE, <<"Image plotted">>)

onPlotImage(w, image_array, plotname) == baseScriptCommand(func_onPlotImage(w, image_array, plotname))

Image(pixels) == [type |-> "ndarray", pixels |-> pixels]

\* what camera.get_camera_image() can do: raise, or return (status, image)
CameraShots ==
  {[exc |-> Exc("SpinnakerException", <<"camera error">>), status |-> FALSE, image |-> Image("empty")],
   [exc |-> None, status |-> FALSE, image |-> Image("partial")],
   [exc |-> None, status |-> TRUE, image |-> Image("frame")]}

\* kwargs: of angle, roi, filename and color_levels only filename decides the
\* control flow (numpy.savetxt(filename) lacks its array argument and raises)
func_onPlotCameraImage(w, camera_name, plot_name, kwargs, shot) ==
  LET tried ==
        IF camera_name \in w.ui.cameras
          THEN IF shot.exc # None
                 THEN [w |-> w, image |-> Image("empty"), error |-> TRUE, message |-> str(shot.exc)]
               ELSE IF ~shot.status
                 THEN [w |-> w, image |-> shot.image, error |-> FALSE,
                       message |-> <<"Camera image incomplete">>]
               ELSE IF kwargs.filename
                 THEN [w |-> w, image |-> shot.image, error |-> TRUE,
                       message |-> <<"savetxt() missing 1 required positional argument: 'X'">>]
               ELSE [w |-> onPlotImage(w, shot.image, plot_name), image |-> shot.image,
                     error |-> FALSE, message |-> <<"Camera image plotted">>]
          ELSE [w |-> w, image |-> Image("empty"), error |-> FALSE,
                message |-> <<"Camera ", camera_name, " not found. Add using addCamera">>]
      w1 == Lock(tried.w)
      w2 == Unlock([w1 EXCEPT !.script.genericResult = tried.image])
      w3 == wakeAll(w2, "genericWait")
  IN  Ret(w3, tried.error, tried.message)

onPlotCameraImage(w, camera_name, plot_name, kwargs, shot) ==
  baseScriptCommand(func_onPlotCameraImage(w, camera_name, plot_name, kwargs, shot))

\* globals: the names the script may ask for, one of them not a global
GlobalArgs == {"g", "h"}

getGlobal(w, name) ==
  IF name \in DOMAIN w.ui.globalDict
    THEN w.ui.globalDict[name]
    ELSE ScriptException(<<"Global '", name, "' does not exist!">>)

\* the calls a script makes through genericCallSignal: (funcname, args)
GenericCalls ==
  {<<"getGlobal", <<n>>>> : n \in GlobalArgs} \cup {<<"noSuchMethod", <<>>>>}

\* generic calls of ScriptHandler methods that take script.mutex themselves
MethodCalls ==
  {<<"onStopScript", <<>>>>, <<"onRepeat", <<"True">>>>, <<"onData", <<"data">>>>}

\* the method funcname called with args on w
Method(w, funcname, args) ==
  CASE funcname = "onStopScript" -> onStopScript(w)
    [] funcname = "onRepeat" -> onRepeat(w, args[1] = "True")
    [] funcname = "onData" -> onData(w, [type |-> "dict", scan |-> w.ui.scanNo])

\* getattr(self, funcname)(*args, **kwargs): the value it returns, or the
\* exception it raises
Invoke(w, funcname, args) ==
  IF funcname = "getGlobal"
    THEN [w |-> w, exc |-> None, value |-> getGlobal(w, args[1])]
  ELSE IF \E call \in MethodCalls : call[1] = funcname
    THEN \* the method's first statement locks script.mutex: it stops there
         \* when the caller holds the mutex, and runs and returns None otherwise
         [w |-> IF Lock(w).hung THEN Lock(w) ELSE Method(w, funcname, args),
          exc |-> None, value |-> None]
    ELSE [w |-> w,
          exc |-> Exc("AttributeError",
                      <<"'ScriptHandler' object has no attribute '", funcname, "'">>),
          value |-> None]

\* an onGenericCall that keeps script.mutex when the invoked function raises
func_onGenericCall_keepsLockOnRaise(w, funcname, args) ==
  LET w1 == Lock(w)
      c == Invoke(w1, funcname, args)
  IN  IF c.w.hung
        THEN Ret(c.w, FALSE, NoMessage)
      ELSE IF c.exc # None
        THEN Ret(c.w, TRUE, str(c.exc))
        ELSE LET w2 == Unlock([c.w EXCEPT !.script.genericResult = c.value])
                 w3 == wakeAll(w2, "genericWait")
             IN  Ret(w3, FALSE, <<funcname>> \o args \o <<" executed">>)

func_onGenericCall(w, funcname, args) ==
  LET w1 == Lock(w)
      c == Invoke(w1, funcname, args)
  IN  IF c.w.hung
        THEN Ret(c.w, FALSE, NoMessage)
      ELSE IF c.exc # None
        THEN Ret(Unlock(c.w), TRUE, str(c.exc))
        ELSE LET w2 == Unlock([c.w EXCEPT !.script.genericResult = c.value])
                 w3 == wakeAll(w2, "genericWait")
             IN  Ret(w3, FALSE, <<funcname>> \o args \o <<" executed">>)

onGenericCall(w, funcname, args) == baseScriptCommand(func_onGenericCall(w, funcname, args))

\* ------------------------------------------- AWG, trace and fit commands
\* the AWGs of AWGUiDict with the settings of their combo boxes, and the
\* names a script may ask for
AWGNames == {"AWG_A"}

AWGArgs == AWGNames \cup {"AWG_B"}

AWGSettings == {"Set_A", "Set_C"}

AWGSettingArgs == AWGSettings \cup {"Set_B"}

func_onSetAWG(w, AWGname, name) ==
  IF AWGname \notin DOMAIN w.ui.AWGUiDict
    THEN Ret(w, TRUE, <<"AWG ", AWGname, " does not exist">>)
  ELSE IF name \notin AWGSettings
    THEN Ret(w, TRUE, <<"AWG ", AWGname, " settings ", name, " does not exist.">>)
  ELSE Ret([w EXCEPT !.ui.AWGUiDict[AWGname].setting = name], FALSE,
           <<"AWG ", AWGname, " settings set to ", name>>)

onSetAWG(w, AWGname, name) == baseScriptCommand(func_onSetAWG(w, AWGname, name))

func_onProgramAWG(w, AWGname) ==
  IF AWGname \notin DOMAIN w.ui.AWGUiDict
    THEN Ret(w, TRUE, <<"AWG ", AWGname, " does not exist">>)
    ELSE Ret([w EXCEPT !.ui.AWGUiDict[AWGname].programmed = w.ui.AWGUiDict[AWGname].setting],
             FALSE, <<"AWG ", AWGname, " programmed">>)

onProgramAWG(w, AWGname) == baseScriptCommand(func_onProgramAWG(w, AWGname))

\* the plots of scanExperiment.plotDict, the trace names a script uses and
\* the fits of the fit widget's combo box
PlotNames == {"plot"}

TracePlotArgs == PlotNames \cup {"noPlot"}

TraceArgs == {"tr"}

FitNames == {"Gaussian"}

FitArgs == FitNames \cup {"NoFit"}

\* traceCreationData = [traceName, plotName, xUnit, xLabel, comment]
func_onCreateTrace(w, traceName, plotName) ==
  IF plotName \notin PlotNames
    THEN Ret(w, TRUE, <<"plot ", plotName, " does not exist">>)
    ELSE LET plottedTrace == [type |-> "PlottedTrace", plot |-> plotName,
                              id |-> w.ui.tracesCreated + 1, x |-> <<>>, y |-> <<>>]
             w1 == [w EXCEPT !.ui.tracesCreated = @ + 1,
                             !.ui.scriptTraces = DictSet(@, traceName, plottedTrace),
                             !.ui.traceAlreadyCreated = DictSet(@, traceName, FALSE)]
         IN  Ret(w1, FALSE, <<"Added trace ", traceName, " plot: ", plotName>>)

onCreateTrace(w, traceName, plotName) == baseScriptCommand(func_onCreateTrace(w, traceName, plotName))

\* d without key
DictPop(d, key) == [k \in DOMAIN d \ {key} |-> d[k]]

\* plottedTrace.traceCollection.save()
save(w, plottedTrace) ==
  [w EXCEPT !.ui.savedTraces = Append(@, plottedTrace.id),
            !.events = Append(@, Event("save", plottedTrace, w))]

\* measurementLog.container.addMeasurement(measurement)
registerMeasurement(w, plottedTrace) ==
  [w EXCEPT !.ui.measurementLog = Append(@, plottedTrace.id)]

func_onCloseTrace(w, traceName) ==
  IF traceName \notin DOMAIN w.ui.scriptTraces
    THEN Ret(w, TRUE, <<"Trace ", traceName, " does not exist">>)
    ELSE LET plottedTrace == w.ui.scriptTraces[traceName]
             w1 == [w EXCEPT !.ui.scriptTraces = DictPop(@, traceName)]
         IN  Ret(registerMeasurement(save(w1, plottedTrace), plottedTrace), FALSE,
                 <<"Trace ", traceName, " closed">>)

onCloseTrace(w, traceName) == baseScriptCommand(func_onCloseTrace(w, traceName))

func_onFit(w, fitName, traceName) ==
  IF fitName \notin FitNames
    THEN Ret(w, TRUE, <<"Fit '", fitName, "' does not exist.">>)
  ELSE IF traceName \notin DOMAIN w.ui.scriptTraces
    THEN Ret(w, TRUE, <<"Trace '", traceName, "' does not exist">>)
  ELSE LET w1 == Lock([w EXCEPT !.ui.fit = fitName])
           w2 == [w1 EXCEPT !.script.fitResults =
                              [type |-> "dict", fit |-> fitName, trace |-> traceName]]
       IN  Ret(Unlock(w2), FALSE,
               <<"Fitting trace '", traceName, "' using fit '", fitName, "'">>)

onFit(w, fitName, traceName) == baseScriptCommand(func_onFit(w, fitName, traceName))

\* the lists of points a script plots
PointLists == {<<1>>, <<1, 2>>}

\* a plotList that adds the trace to the trace UI on every plot
plotList_addsAgain(w, xList, yList, traceName, overwrite) ==
  IF traceName \notin DOMAIN w.ui.scriptTraces \/ traceName \notin DOMAIN w.ui.traceAlreadyCreated
    THEN Ret(w, TRUE, <<"Trace ", traceName, " does not exist">>)
  ELSE IF Len(xList) # Len(yList)
    THEN Ret(w, TRUE, <<"x and y lists are of unequal lengths">>)
  ELSE LET plottedTrace == w.ui.scriptTraces[traceName]
           set == [plottedTrace EXCEPT !.x = xList, !.y = yList]
           w1 == [w EXCEPT !.ui.scriptTraces[traceName] = set,
                           !.ui.traceui = Append(@, plottedTrace.id),
                           !.ui.traceAlreadyCreated[traceName] = TRUE,
                           !.events = Append(@, Event("addTrace", set, w))]
       IN  Ret(w1, FALSE, <<"points plotted to trace: ", traceName>>)

\* plotList(xList, yList, traceName, overwrite)
plotList(w, xList, yList, traceName, overwrite) ==
  IF traceName \notin DOMAIN w.ui.scriptTraces \/ traceName \notin DOMAIN w.ui.traceAlreadyCreated
    THEN Ret(w, TRUE, <<"Trace ", traceName, " does not exist">>)
  ELSE IF Len(xList) # Len(yList)
    THEN Ret(w, TRUE, <<"x and y lists are of unequal lengths">>)
  ELSE LET plottedTrace == w.ui.scriptTraces[traceName]
           appended == [plottedTrace EXCEPT !.x = @ \o xList, !.y = @ \o yList]
           set == [plottedTrace EXCEPT !.x = xList, !.y = yList]
           w1 == IF w.ui.traceAlreadyCreated[traceName]
                   THEN LET new == IF overwrite THEN set ELSE appended
                        IN  [w EXCEPT !.ui.scriptTraces[traceName] = new,
                                      !.events = Append(@, Event("replot", new, w))]
                   ELSE [w EXCEPT !.ui.scriptTraces[traceName] = set,
                                  !.ui.traceui = Append(@, plottedTrace.id),
                                  !.ui.traceAlreadyCreated[traceName] = TRUE,
                                  !.events = Append(@, Event("addTrace", set, w))]
       IN  Ret(w1, FALSE, <<"points plotted to trace: ", traceName>>)

onPlotPoint(w, traceName) == baseScriptCommand(plotList(w, <<1>>, <<1>>, traceName, FALSE))

onPlotList(w, xList, yList, traceName, overwrite) ==
  baseScriptCommand(plotList(w, xList, yList, traceName, overwrite))

\* the open trace with the smallest id among names
RECURSIVE FinishTraces(_, _)
FinishTraces(w, names) ==
  IF names = {} THEN w
  ELSE LET n == CHOOSE m \in names : \A k \in names : w.ui.scriptTraces[m].id <= w.ui.scriptTraces[k].id
           plottedTrace == w.ui.scriptTraces[n]
       IN  FinishTraces(registerMeasurement(save(w, plottedTrace), plottedTrace), names \ {n})

\* the script thread has finished: every open trace is saved and registered
onFinished(w) ==
  LET w1 == FinishTraces(w, DOMAIN w.ui.scriptTraces)
  IN  [w1 EXCEPT !.ui.scriptTraces = [n \in {} |-> None]]

\* ------------------------------------------------- pulser ServerProcess
\* (src/pulser/ServerProcess.py)  The server process serves the commands that
\* arrive on commandPipe, reads the data fifo once per turn of its loop and
\* tells its queues when it ends.
FinishException == [type |-> "FinishException", msg |-> <<>>]

\* ServerProcess.__init__, with the pipe and the queues the process is given:
\* inbox holds the commands sent and not yet received, received the commands
\* taken from the pipe and replies what was sent back, both in order; ops is
\* what was done to dataQueue and loggingQueue, in order
ServerProcess ==
  [pc |-> "init", running |-> TRUE, inbox |-> <<>>, received |-> <<>>, replies |-> <<>>,
   ops |-> <<>>, fifoCallsSinceStop |-> 0]

\* one operation on a queue
Op(queue, op, item) == [queue |-> queue, op |-> op, item |-> item]

\* (commandstring, argument) pairs a client sends: setting an attribute,
\* calling readDataFifo with and without a surplus argument, and a name that
\* is no attribute of the process
ServerCommands ==
  {[commandstring |-> "__setattr__", argument |-> <<"running", "False">>],
   [commandstring |-> "readDataFifo", argument |-> <<>>],
   [commandstring |-> "readDataFifo", argument |-> <<"1">>],
   [commandstring |-> "noSuchCommand", argument |-> <<>>]}

\* what a call of readDataFifo (a hook for the hardware's reader) can do
FifoOutcomes == {"nothing", "data", "raise"}

\* readDataFifo(): the process afterwards and the exception raised, if any
readDataFifo(s, outcome) ==
  CASE outcome = "nothing" -> [s |-> s, exc |-> None, value |-> None]
    [] outcome = "data" ->
         [s |-> [s EXCEPT !.ops = Append(@, Op("dataQueue", "put", [type |-> "data"]))],
          exc |-> None, value |-> None]
    [] outcome = "raise" ->
         [s |-> s, exc |-> Exc("IOError", <<"fifo read failed">>), value |-> None]

\* command = getattr(self, commandstring); command(*argument)
command(s, c, outcome) ==
  CASE c.commandstring = "__setattr__" ->
         [s |-> [s EXCEPT !.running = FALSE], exc |-> None, value |-> None]
    [] c.commandstring = "readDataFifo" /\ c.argument = <<>> -> readDataFifo(s, outcome)
    [] c.commandstring = "readDataFifo" /\ c.argument # <<>> ->
         [s |-> s, value |-> None,
          exc |-> Exc("TypeError", <<"readDataFifo() takes 1 positional argument but 2 were given">>)]
    [] OTHER ->
         [s |-> s, value |-> None,
          exc |-> Exc("AttributeError",
                      <<"'ServerProcess' object has no attribute '", c.commandstring, "'">>)]

\* commandPipe.send(obj)
send(s, obj) == [s EXCEPT !.replies = Append(@, obj)]

\* a loop body that sends no reply when the command fails
handleCommand_dropsFailure(s, outcome) ==
  LET c == Head(s.inbox)
      s1 == [s EXCEPT !.inbox = Tail(@), !.received = Append(@, c)]
      called == command(s1, c, outcome)
  IN  IF called.exc # None THEN called.s ELSE send(called.s, called.value)

\* the body of `if self.commandPipe.poll(0.01)`: receive, call, reply
handleCommand(s, outcome) ==
  LET c == Head(s.inbox)
      s1 == [s EXCEPT !.inbox = Tail(@), !.received = Append(@, c)]
      called == command(s1, c, outcome)
  IN  IF called.exc # None
        THEN send(called.s, called.exc)
        ELSE send(called.s, called.value)

\* a loop test that never ends the loop
LoopTest_always(s) == TRUE

\* while self.running
LoopTest(s) == s.running

\* a closing that tells the logging queue before it closes the data queue
closeQueues_loggingFirst(s) ==
  [s EXCEPT !.pc = "done",
            !.ops = @ \o <<Op("loggingQueue", "put", None), Op("loggingQueue", "close", None),
                           Op("dataQueue", "close", None)>>]

\* the end of run, after the try statement
closeQueues(s) ==
  [s EXCEPT !.pc = "done",
            !.ops = @ \o <<Op("dataQueue", "close", None), Op("loggingQueue", "put", None),
                           Op("loggingQueue", "close", None)>>]

\* the loop has ended: the last statements of the try block
finishLoop(s) ==
  [s EXCEPT !.ops = Append(@, Op("dataQueue", "put", FinishException))]

\* ------------------------------------------------- DCVoltageControl
\* (src/externalParameter/StandardExternalParameter.py)  The adapter of the
\* four rod DC controller.  Magnitudes are counted in tenths, so that 5 is
\* 0.5 and 2550 is 255.
Quantity(tenths, unit) == [type |-> "Q", tenths |-> tenths, u |-> unit]

\* _outputLookup: the voltage channels and the controller's channel of each
OutputLookup ==
  [c \in {"Needle_1_Voltage", "Needle_2_Voltage", "Rod_1_Voltage", "Rod_2_Voltage",
          "Rod_3_Voltage", "Rod_4_Voltage"} |->
     CASE c = "Needle_1_Voltage" -> "CHANNEL_N1"
       [] c = "Needle_2_Voltage" -> "CHANNEL_N2"
       [] c = "Rod_1_Voltage" -> "CHANNEL_R1"
       [] c = "Rod_2_Voltage" -> "CHANNEL_R2"
       [] c = "Rod_3_Voltage" -> "CHANNEL_R3"
       [] c = "Rod_4_Voltage" -> "CHANNEL_R4"]

ControllerChannels == {OutputLookup[c] : c \in DOMAIN OutputLookup}

\* the channels and quantities setValue is called with: the mode channel, two
\* voltage channels and a name that is no channel; magnitudes 0, 0.5, 1, 1.9,
\* 2, 255, 255.5 and -0.5, without unit and in volts
ChannelArgs == {"Enable Remote Control", "Needle_1_Voltage", "Rod_1_Voltage", "noChannel"}

QuantityArgs ==
  {Quantity(m, u) : m \in {0, 5, 10, 19, 20, 2550, 2555, -5}, u \in {"", "V"}}

\* the controller as the adapter finds it, and nothing done yet: mode and
\* volt are what the controller holds for each of its channels, calls the
\* requests the last setValue sent it, exc and value how that call ended
DCVoltageControl ==
  [mode |-> [c \in ControllerChannels |-> 0],
   volt |-> [c \in ControllerChannels |-> 0],
   calls |-> <<>>, exc |-> None, value |-> None]

\* int(x): the magnitude without its fraction, rounded towards zero
int(tenths) == IF tenths >= 0 THEN tenths \div 10 ELSE -((-tenths) \div 10)

\* v.m_as(unit): the magnitude of v in unit, or the exception of a quantity
\* of another dimension
m_as(v, unit) ==
  IF v.u = unit
    THEN [exc |-> None, tenths |-> v.tenths]
    ELSE [exc |-> Exc("DimensionalityError", <<"Cannot convert from '", v.u, "' to '", unit, "'">>),
          tenths |-> 0]

\* dc_client.set_mode_all(mode)
set_mode_all(d, mode) ==
  [d EXCEPT !.mode = [c \in ControllerChannels |-> mode],
            !.calls = Append(@, [call |-> "set_mode_all", channel |-> "all", arg |-> mode])]

\* dc_client.set_volt(channel, volt), volt in tenths
set_volt(d, channel, tenths) ==
  [d EXCEPT !.volt[channel] = tenths,
            !.calls = Append(@, [call |-> "set_volt", channel |-> channel, arg |-> tenths])]

\* setValue(channel, v), on a controller that has been sent nothing by this
\* call yet; exc is what the call raises, value what it returns
setValue(d0, channel, v) ==
  LET d == [d0 EXCEPT !.calls = <<>>]
  IN  IF channel = "Enable Remote Control"
        THEN LET converted == m_as(v, "")
                 v_value == int(converted.tenths)
             IN  IF converted.exc # None THEN [d EXCEPT !.exc = converted.exc, !.value = None]
                 ELSE IF v_value \notin {0, 1, 255}
                   THEN [d EXCEPT !.exc = Exc("ValueError", <<"Not an available mode!!!!!">>),
                                  !.value = None]
                 ELSE [set_mode_all(d, v_value) EXCEPT !.exc = None, !.value = v]
        ELSE LET converted == m_as(v, "V")
             IN  IF converted.exc # None THEN [d EXCEPT !.exc = converted.exc, !.value = None]
                 ELSE IF channel \notin DOMAIN OutputLookup
                   THEN [d EXCEPT !.exc = Exc("KeyError", <<channel>>), !.value = None]
                 ELSE [set_volt(d, OutputLookup[channel], converted.tenths) EXCEPT
                         !.exc = None, !.value = v]

\* ---------------------------------------------------------------- steps
\* one handler call on the GUI thread: the world it leaves becomes the state
Handler(w) ==
  /\ gui = "idle"
  /\ script' = w.script
  /\ ui' = w.ui
  /\ thr' = w.thr
  /\ gui' = IF w.hung THEN "blocked" ELSE "idle"
  /\ UNCHANGED <<srv, dc>>

Call(w) == Handler(w) /\ UNCHANGED atStart

\* what the scan experiment hands to onData, onAllData and onAnalysisResult:
\* a result of the scan that is current when the event is delivered
Payload == [type |-> "dict", scan |-> ui.scanNo]

StopScript == Call(onStopScript(World)) /\ UNCHANGED <<emitted, log>>

\* the start button; a start that starts the script is where a run begins
StartScript ==
  /\ Handler(onStartScript(World))
  /\ atStart' = IF isRunning(World) THEN atStart ELSE ui.globalDict
  /\ UNCHANGED <<emitted, log>>

PauseScript ==
  \E p \in BOOLEAN : Call(onPauseScript(World, p)) /\ UNCHANGED <<emitted, log>>

Repeat ==
  \E r \in BOOLEAN : Call(onRepeat(World, r)) /\ UNCHANGED <<emitted, log>>

ScanStateChanged ==
  \E s \in {"idle", "running"} :
    Call(onScanStateChanged(World, s)) /\ UNCHANGED <<emitted, log>>

AnalysisResult ==
  Call(onAnalysisResult(World, Payload)) /\ UNCHANGED <<emitted, log>>

Data == Call(onData(World, Payload)) /\ UNCHANGED <<emitted, log>>

AllData == Call(onAllData(World, Payload)) /\ UNCHANGED <<emitted, log>>

\* a slot runs for the signal thread t emitted; the signal leaves the queue and
\* what the call did is kept
Slot(t, kind, w) ==
  /\ emitted[t] = kind
  /\ emitted' = [emitted EXCEPT ![t] = NoCv]
  /\ Call(w)
  /\ log' = w.events

SetScan(t) == \E name \in ScanArgs : Slot(t, "command", onSetScan(World, name))

SetGlobal(t) ==
  \E name \in GlobalArgs, value \in GlobalValues, unit \in Units :
    Slot(t, "command", onSetGlobal(World, name, value, unit))

AddGlobal(t) ==
  \E name \in GlobalArgs, value \in GlobalValues, unit \in Units :
    Slot(t, "command", onAddGlobal(World, name, value, unit))

SetEvaluation(t) ==
  \E name \in EvaluationArgs : Slot(t, "command", onSetEvaluation(World, name))

SetAnalysis(t) ==
  \E name \in AnalysisArgs : Slot(t, "command", onSetAnalysis(World, name))

StartScan(t) ==
  /\ ui.scanNo < MaxScans
  /\ Slot(t, "command", onStartScan(World, <<>>))

StopScriptFromScript(t) == Slot(t, "command", onStopScriptFromScript(World))

AddCamera(t) == \E c \in CameraArgs : Slot(t, "command", onAddCamera(World, c))

PlotImage(t) ==
  \E p \in PlotArgs : Slot(t, "command", onPlotImage(World, Image("frame"), p))

PlotCameraImage(t) ==
  \E c \in CameraArgs, p \in PlotArgs, f \in BOOLEAN, shot \in CameraShots :
    Slot(t, "generic", onPlotCameraImage(World, c, p, [filename |-> f], shot))

GenericCall(t) ==
  \E call \in GenericCalls : Slot(t, "generic", onGenericCall(World, call[1], call[2]))

GenericMethodCall(t) ==
  \E call \in MethodCalls : Slot(t, "generic", onGenericCall(World, call[1], call[2]))

SetAWG(t) ==
  \E a \in AWGArgs, name \in AWGSettingArgs : Slot(t, "command", onSetAWG(World, a, name))

ProgramAWG(t) == \E a \in AWGArgs : Slot(t, "command", onProgramAWG(World, a))

CreateTrace(t) ==
  /\ ui.tracesCreated < MaxTraces
  /\ \E tr \in TraceArgs, p \in TracePlotArgs : Slot(t, "command", onCreateTrace(World, tr, p))

CloseTrace(t) == \E tr \in TraceArgs : Slot(t, "command", onCloseTrace(World, tr))

Fit(t) == \E f \in FitArgs, tr \in TraceArgs : Slot(t, "command", onFit(World, f, tr))

\* the trace called traceName has room for n more points
Room(traceName, n) ==
  traceName \in DOMAIN ui.scriptTraces => Len(ui.scriptTraces[traceName].x) + n <= MaxPoints

PlotPoint(t) ==
  \E tr \in TraceArgs : Room(tr, 1) /\ Slot(t, "command", onPlotPoint(World, tr))

PlotList(t) ==
  \E x \in PointLists, y \in PointLists, tr \in TraceArgs, overwrite \in BOOLEAN :
    Room(tr, Len(x)) /\ Slot(t, "command", onPlotList(World, x, y, tr, overwrite))

\* the finished signal of the script thread reaches its slot
Finished ==
  /\ \E t \in Threads : thr[t].pc = "done"
  /\ Call(onFinished(World))
  /\ UNCHANGED <<emitted, log>>

\* ------------------------------------------------- ServerProcess steps
\* the process is started: run begins and reaches its loop
ServerRun ==
  /\ srv.pc = "init"
  /\ srv' = [srv EXCEPT !.pc = "loop"]
  /\ UNCHANGED <<script, ui, thr, emitted, log, gui, atStart, dc>>

\* a client sends a command down the pipe
ClientSend ==
  /\ Len(srv.inbox) + Len(srv.received) < MaxCommands
  /\ \E c \in ServerCommands : srv' = [srv EXCEPT !.inbox = Append(@, c)]
  /\ UNCHANGED <<script, ui, thr, emitted, log, gui, atStart, dc>>

\* the readDataFifo outcomes the bound on data items allows
FifoChoices ==
  IF Len(SelectSeq(srv.ops, LAMBDA o : o.queue = "dataQueue" /\ o.item.type = "data")) < MaxData
    THEN FifoOutcomes
    ELSE FifoOutcomes \ {"data"}

\* a turn of the loop with a command waiting: poll is true
ServerCommand ==
  /\ srv.pc = "loop"
  /\ LoopTest(srv)
  /\ srv.inbox # <<>>
  /\ \E outcome \in FifoChoices : srv' = [handleCommand(srv, outcome) EXCEPT !.pc = "fifo"]
  /\ UNCHANGED <<script, ui, thr, emitted, log, gui, atStart, dc>>

\* a turn of the loop with no command waiting: poll is false
ServerNoCommand ==
  /\ srv.pc = "loop"
  /\ LoopTest(srv)
  /\ srv.inbox = <<>>
  /\ srv' = [srv EXCEPT !.pc = "fifo"]
  /\ UNCHANGED <<script, ui, thr, emitted, log, gui, atStart, dc>>

\* self.readDataFifo() at the end of a turn; an exception it raises leaves
\* the loop and the try block
ServerReadDataFifo ==
  /\ srv.pc = "fifo"
  /\ \E outcome \in FifoChoices :
       LET r == readDataFifo(srv, outcome)
           counted == [r.s EXCEPT !.fifoCallsSinceStop =
                                    IF r.s.running THEN 0 ELSE IF @ < 2 THEN @ + 1 ELSE @]
       IN  srv' = IF r.exc # None THEN closeQueues(counted) ELSE [counted EXCEPT !.pc = "loop"]
  /\ UNCHANGED <<script, ui, thr, emitted, log, gui, atStart, dc>>

\* the loop test fails: the loop ends and run finishes
ServerFinish ==
  /\ srv.pc = "loop"
  /\ ~LoopTest(srv)
  /\ srv' = closeQueues(finishLoop(srv))
  /\ UNCHANGED <<script, ui, thr, emitted, log, gui, atStart, dc>>

\* ------------------------------------------------- DCVoltageControl steps
\* a caller sets a channel of the adapter
SetValue ==
  /\ \E channel \in ChannelArgs, v \in QuantityArgs : dc' = setValue(dc, channel, v)
  /\ UNCHANGED <<script, ui, thr, emitted, log, gui, srv, atStart>>

\* ------------------------------------------------------ script-side threads
\* script.mutex can be taken: no handler call is stuck holding it
MutexFree == gui = "idle"

\* the flag a waiter on cv checks before it blocks and after it wakes
Blocked(s, cv) ==
  CASE cv = "pauseWait" -> s.paused
    [] cv = "scanWait" -> s.scanIsRunning
    [] cv = "dataWait" -> ~s.dataReady
    [] cv = "allDataWait" -> ~s.allDataReady
    [] cv = "analysisWait" -> ~s.analysisReady
    [] OTHER -> TRUE

\* a script function waits for a flag: under the mutex it checks stopped and
\* the flag, and blocks on the wait condition (which releases the mutex)
ScriptWait(t) ==
  \E cv \in {"pauseWait", "scanWait", "dataWait", "allDataWait", "analysisWait"} :
    /\ thr[t].pc = "run"
    /\ MutexFree
    /\ ~script.stopped
    /\ Blocked(script, cv)
    /\ thr' = [thr EXCEPT ![t] = [pc |-> "wait", cv |-> cv]]
    /\ UNCHANGED <<script, ui, emitted, log, gui, srv, atStart, dc>>

\* a script function emits its signal and blocks until the GUI has handled it
ScriptEmit(t, kind) ==
  /\ thr[t].pc = "run"
  /\ MutexFree
  /\ ~script.stopped
  /\ emitted[t] = NoCv
  /\ emitted' = [emitted EXCEPT ![t] = kind]
  /\ thr' = [thr EXCEPT ![t] =
               [pc |-> "wait", cv |-> IF kind = "generic" THEN "genericWait" ELSE "guiWait"]]
  /\ UNCHANGED <<script, ui, log, gui, srv, atStart, dc>>

\* the consumer drains a result slot: it clears the ready flag of the slot
Drain(s, cv) ==
  CASE cv = "dataWait" -> [s EXCEPT !.dataReady = FALSE]
    [] cv = "allDataWait" -> [s EXCEPT !.allDataReady = FALSE]
    [] cv = "analysisWait" -> [s EXCEPT !.analysisReady = FALSE]
    [] OTHER -> s

\* a woken thread takes the mutex again and checks stopped: it ends when the
\* script was stopped, and goes on otherwise
ScriptResume(t) ==
  /\ thr[t].pc = "woken"
  /\ MutexFree
  /\ IF script.stopped
       THEN /\ thr' = [thr EXCEPT ![t] = [pc |-> "done", cv |-> NoCv]]
            /\ UNCHANGED script
       ELSE /\ thr' = [thr EXCEPT ![t] = [pc |-> "run", cv |-> NoCv]]
            /\ script' = IF Blocked(script, thr[t].cv) THEN script ELSE Drain(script, thr[t].cv)
  /\ UNCHANGED <<ui, emitted, log, gui, srv, atStart, dc>>

\* the script's code ends
ScriptFinish(t) ==
  /\ thr[t].pc = "run"
  /\ thr' = [thr EXCEPT ![t] = [pc |-> "done", cv |-> NoCv]]
  /\ UNCHANGED <<script, ui, emitted, log, gui, srv, atStart, dc>>

\* ---------------------------------------------------------------- Init
Init ==
  /\ script = [stopped |-> FALSE, paused |-> FALSE, waitOnScan |-> FALSE, repeat |-> FALSE,
               scanIsRunning |-> FALSE, scanStatus |-> "idle",
               analysisReady |-> FALSE, dataReady |-> FALSE, allDataReady |-> FALSE,
               analysisResults |-> None, data |-> None, allData |-> None,
               genericResult |-> None, fitResults |-> None, exception |-> None]
  /\ ui = [scanNo |-> 0, scan |-> "Scan_A", evaluation |-> "Eval_A", analysis |-> "Fit_A",
           cameras |-> {},
           AWGUiDict |-> [a \in AWGNames |-> [setting |-> "Set_A", programmed |-> "Set_A"]],
           scriptTraces |-> [n \in {} |-> None],
           tracesCreated |-> 0, traceui |-> <<>>, savedTraces |-> <<>>, measurementLog |-> <<>>,
           traceAlreadyCreated |-> [n \in {} |-> FALSE],
           fit |-> "Gaussian",
           globalDict |-> [n \in {"g"} |-> Q(1, "MHz")],
           globalVariablesRevertDict |-> [n \in {} |-> None]]
  /\ thr = [t \in Threads |-> [pc |-> "idle", cv |-> NoCv]]
  /\ emitted = [t \in Threads |-> NoCv]
  /\ log = <<>>
  /\ gui = "idle"
  /\ srv = ServerProcess
  /\ atStart = [n \in {"g"} |-> Q(1, "MHz")]
  /\ dc = DCVoltageControl

\* the handshake: buttons, experiment events, the script's waits, and the
\* commands that touch the flags the waits check
Next ==
  \/ StopScript
  \/ StartScript
  \/ PauseScript
  \/ ScanStateChanged
  \/ AnalysisResult
  \/ Data
  \/ AllData
  \/ \E t \in Threads : StartScan(t)
  \/ \E t \in Threads : StopScriptFromScript(t)
  \/ \E t \in Threads : GenericCall(t)
  \/ \E t \in Threads : ScriptWait(t)
  \/ \E t \in Threads : ScriptEmit(t, "command")
  \/ \E t \in Threads : ScriptEmit(t, "generic")
  \/ \E t \in Threads : ScriptResume(t)
  \/ \E t \in Threads : ScriptFinish(t)

Spec == Init /\ [][Next]_vars

\* the script commands: a script that emits one request after another
CmdNext ==
  \/ StopScript
  \/ StartScript
  \/ \E t \in Threads : SetScan(t)
  \/ \E t \in Threads : StartScan(t)
  \/ \E t \in Threads : StopScriptFromScript(t)
  \/ \E t \in Threads : AddCamera(t)
  \/ \E t \in Threads : PlotImage(t)
  \/ \E t \in Threads : PlotCameraImage(t)
  \/ \E t \in Threads : GenericCall(t)
  \/ \E t \in Threads : ScriptEmit(t, "command")
  \/ \E t \in Threads : ScriptEmit(t, "generic")
  \/ \E t \in Threads : ScriptResume(t)
  \/ \E t \in Threads : ScriptFinish(t)

CmdSpec == Init /\ [][CmdNext]_vars

\* the settings a script changes: globals, scan, evaluation and analysis
UiNext ==
  \/ StopScript
  \/ StartScript
  \/ Repeat
  \/ \E t \in Threads : SetGlobal(t)
  \/ \E t \in Threads : SetScan(t)
  \/ \E t \in Threads : SetEvaluation(t)
  \/ \E t \in Threads : SetAnalysis(t)
  \/ \E t \in Threads : ScriptEmit(t, "command")
  \/ \E t \in Threads : ScriptResume(t)
  \/ \E t \in Threads : ScriptFinish(t)

UiSpec == Init /\ [][UiNext]_vars

\* the globals a script adds and sets
GlobalNext ==
  \/ StopScript
  \/ StartScript
  \/ \E t \in Threads : AddGlobal(t)
  \/ \E t \in Threads : SetGlobal(t)
  \/ \E t \in Threads : ScriptEmit(t, "command")
  \/ \E t \in Threads : ScriptResume(t)
  \/ \E t \in Threads : ScriptFinish(t)

GlobalSpec == Init /\ [][GlobalNext]_vars

\* generic calls: values read from the program and methods called by name
GenNext ==
  \/ StopScript
  \/ StartScript
  \/ PauseScript
  \/ Data
  \/ \E t \in Threads : GenericCall(t)
  \/ \E t \in Threads : GenericMethodCall(t)
  \/ \E t \in Threads : ScriptWait(t)
  \/ \E t \in Threads : ScriptEmit(t, "generic")
  \/ \E t \in Threads : ScriptResume(t)
  \/ \E t \in Threads : ScriptFinish(t)

GenSpec == Init /\ [][GenNext]_vars

\* the AWG, trace and fit commands of a script
TraceNext ==
  \/ StopScript
  \/ StartScript
  \/ \E t \in Threads : SetAWG(t)
  \/ \E t \in Threads : ProgramAWG(t)
  \/ \E t \in Threads : CreateTrace(t)
  \/ \E t \in Threads : CloseTrace(t)
  \/ \E t \in Threads : Fit(t)
  \/ \E t \in Threads : PlotPoint(t)
  \/ \E t \in Threads : PlotList(t)
  \/ \E t \in Threads : ScriptEmit(t, "command")
  \/ \E t \in Threads : ScriptResume(t)
  \/ \E t \in Threads : ScriptFinish(t)

TraceSpec == Init /\ [][TraceNext]_vars

\* the life of a trace: created, plotted to, closed, or saved when the script
\* has finished
PlotNext ==
  \/ StartScript
  \/ Finished
  \/ \E t \in Threads : CreateTrace(t)
  \/ \E t \in Threads : CloseTrace(t)
  \/ \E t \in Threads : PlotPoint(t)
  \/ \E t \in Threads : PlotList(t)
  \/ \E t \in Threads : ScriptEmit(t, "command")
  \/ \E t \in Threads : ScriptResume(t)
  \/ \E t \in Threads : ScriptFinish(t)

PlotSpec == Init /\ [][PlotNext]_vars

\* the DC voltage adapter and its callers
DcSpec == Init /\ [][SetValue]_vars

\* the server process and its client
ServerNext ==
  \/ ClientSend
  \/ ServerRun
  \/ ServerCommand
  \/ ServerNoCommand
  \/ ServerReadDataFifo
  \/ ServerFinish

ServerSpec == Init /\ [][ServerNext]_vars

\* the server process is scheduled: it takes its next step
ServerFairSpec ==
  ServerSpec
    /\ WF_vars(ServerRun \/ ServerCommand \/ ServerNoCommand \/ ServerReadDataFifo \/ ServerFinish)

\* the script thread is scheduled: a woken thread gets to run
FairSpec == Spec /\ \A t \in Threads : WF_vars(ScriptResume(t))

\* ---------------------------------------------------------------- claims
\* thread t is blocked on wait condition cv
BlockedOn(t, cv) == thr[t].pc = "wait" /\ thr[t].cv = cv

\* C1: one onStopScript call wakes every script-side thread that is blocked,
\* whichever of the Script's seven wait conditions it is blocked on.
C1_StopWakesEveryWaiter ==
  [][StopScript => \A t \in Threads : thr[t].pc = "wait" => thr'[t].pc = "woken"]_vars

\* C2: once the script is stopped, a thread that was waiting (on any wait
\* condition) terminates, with no further GUI or experiment event required.
C2_StoppedThreadTerminates ==
  \A t \in Threads :
    [](script.stopped /\ thr[t].pc \in {"wait", "woken"} => <>(thr[t].pc = "done"))

\* ------------------------------------------------- reading a call's log
IsWake(e, cv) == e.ev = "wake" /\ e.arg.name = cv

Wakes(events, cv) == {i \in DOMAIN events : IsWake(events[i], cv)}

\* the places where a wrapped function came back into the decorator
Ends(events) == {i \in DOMAIN events : events[i].ev \in {"returned", "raised"}}

\* the wrapped function failed: it raised, or it returned error=True
Failed(e) == e.ev = "raised" \/ (e.ev = "returned" /\ e.arg.error)

\* the exception a failure is to leave in script.exception
Failure(e) ==
  IF e.ev = "raised" THEN e.arg
  ELSE ScriptException(IF Truthy(e.arg.message) THEN e.arg.message ELSE <<>>)

\* thread t's request is taken from the queue by this step
Handled(t) == emitted[t] # NoCv /\ emitted'[t] = NoCv

\* the outermost function of the call in the log: the last to come back
Top(events) ==
  IF Ends(events) = {}
    THEN [ev |-> "pending", arg |-> None, held |-> FALSE]
    ELSE events[CHOOSE i \in Ends(events) : \A j \in Ends(events) : j <= i]

\* C3: every call of a decorated handler ends by signalling guiWait, whether
\* the wrapped function returned without error, returned error=True or raised,
\* and a thread blocked on guiWait for the request is woken by the call.
C3_CommandSignalsGuiWait ==
  /\ [](log # <<>> => /\ IsWake(log[Len(log)], "guiWait")
                      /\ \A i \in Ends(log) : \E j \in Wakes(log, "guiWait") : i < j)
  /\ [][\A t \in Threads :
          Handled(t) /\ BlockedOn(t, "guiWait") => thr'[t].pc = "woken"]_vars

C3_Witness ==
  \E t \in Threads :
    /\ thr[t] = [pc |-> "woken", cv |-> "guiWait"]
    /\ ~script.stopped
    /\ Top(log).ev = "raised"

\* C4: when the wrapped function raises or returns error=True, the exception
\* is stored in script.exception with script.mutex held, before guiWait is
\* signalled; the thread woken by the call finds that exception set.
C4_ExceptionStoredBeforeSignal ==
  /\ [](\A i \in Ends(log) :
          Failed(log[i]) =>
            \E j \in DOMAIN log :
              /\ i < j
              /\ log[j].ev = "exception"
              /\ log[j].arg = Failure(log[i])
              /\ log[j].held
              /\ \A k \in Wakes(log, "guiWait") : k < i \/ j < k)
  /\ [][\A t \in Threads :
          Handled(t) /\ BlockedOn(t, "guiWait") /\ Failed(Top(log')) =>
            thr'[t].pc = "woken" /\ script'.exception = Failure(Top(log'))]_vars

C4_Witness ==
  \E t \in Threads :
    /\ thr[t] = [pc |-> "woken", cv |-> "guiWait"]
    /\ ~script.stopped
    /\ Failed(Top(log))
    /\ script.exception = ScriptException(<<"Scan ", "Scan_B", " does not exist.">>)

\* C5: when the function onGenericCall invokes raises, a thread waiting on
\* genericWait for the result of that call is woken.
C5_GenericRaiseStillWakes ==
  [][\A t \in Threads :
       GenericCall(t) /\ Failed(Top(log')) /\ BlockedOn(t, "genericWait") =>
         thr'[t].pc = "woken"]_vars

\* C6: one call of a decorated handler signals guiWait exactly once, the
\* handlers that call other handlers included.
C6_OneGuiWakePerCommand ==
  log # <<>> => Cardinality(Wakes(log, "guiWait")) = 1

\* the calls of the handlers that are not script commands, on the current state
ButtonAndEventCalls ==
  {onStopScript(World), onStartScript(World), onData(World, Payload),
   onAllData(World, Payload), onAnalysisResult(World, Payload)}
    \cup {onPauseScript(World, p) : p \in BOOLEAN}
    \cup {onRepeat(World, r) : r \in BOOLEAN}
    \cup {onScanStateChanged(World, s) : s \in {"idle", "running"}}

AllHeld(events) == \A i \in DOMAIN events : events[i].ev = "wake" => events[i].held

\* C7: every wakeAll the handler issues on a wait condition of the Script is
\* issued while script.mutex is held.
C7_SignalsUnderMutex ==
  /\ AllHeld(log)
  /\ \A w \in ButtonAndEventCalls : AllHeld(w.events)

\* ---------------------------------------------------------- result slots
ResultWaits == {"dataWait", "allDataWait", "analysisWait"}

\* the value of the result slot a waiter on cv reads
SlotValue(s, cv) ==
  CASE cv = "dataWait" -> s.data
    [] cv = "allDataWait" -> s.allData
    [] cv = "analysisWait" -> s.analysisResults

\* thread t was woken on a result slot's wait condition and finds the flag set
WokenReady(t) ==
  /\ thr[t].pc = "woken"
  /\ thr[t].cv \in ResultWaits
  /\ ~Blocked(script, thr[t].cv)

\* a value delivered after the latest onStartScan cleared the flags
Fresh(v) == v # None /\ v.scan = ui.scanNo

\* each event handler writes value and flag together and signals with the
\* mutex held
DeliversUnderMutex ==
  /\ LET w == onData(World, Payload)
     IN  w.script.data = Payload /\ w.script.dataReady /\ AllHeld(w.events)
  /\ LET w == onAllData(World, Payload)
     IN  w.script.allData = Payload /\ w.script.allDataReady /\ AllHeld(w.events)
  /\ LET w == onAnalysisResult(World, Payload)
     IN  w.script.analysisResults = Payload /\ w.script.analysisReady /\ AllHeld(w.events)

\* C8 as stated: a consumer woken on dataWait, allDataWait or analysisWait that
\* finds its ready flag set reads the value delivered by the event that set
\* the flag, never a value delivered before the onStartScan that cleared it.
C8_WokenConsumerReadsFresh ==
  /\ DeliversUnderMutex
  /\ \A t \in Threads : WokenReady(t) => Fresh(SlotValue(script, thr[t].cv))

\* C8 amended: the same for a consumer that finds its ready flag set while the
\* script is not stopped (onStopScript forces the flags without a value).
C8_WokenConsumerReadsFreshUnlessStopped ==
  /\ DeliversUnderMutex
  /\ \A t \in Threads :
       WokenReady(t) /\ ~script.stopped => Fresh(SlotValue(script, thr[t].cv))

C8_Witness ==
  \E t \in Threads :
    /\ WokenReady(t)
    /\ thr[t].cv = "dataWait"
    /\ ~script.stopped
    /\ ui.scanNo > 0
    /\ script.data = [type |-> "dict", scan |-> ui.scanNo]

\* this step raises one of the ready flags
RaisesData == ~script.dataReady /\ script'.dataReady

RaisesAllData == ~script.allDataReady /\ script'.allDataReady

RaisesAnalysis == ~script.analysisReady /\ script'.analysisReady

\* this step is a call of onStopScript, from the button or from the script
Stops == StopScript \/ \E t \in Threads : StopScriptFromScript(t)

\* the script commands that are no stop, called on the current state
OtherCommandCalls ==
  {onSetScan(World, n) : n \in ScanArgs}
    \cup {onSetEvaluation(World, n) : n \in EvaluationArgs}
    \cup {onSetAnalysis(World, n) : n \in AnalysisArgs}
    \cup {onSetGlobal(World, n, v, u) : n \in GlobalArgs, v \in GlobalValues, u \in Units}
    \cup {onAddCamera(World, c) : c \in CameraArgs}
    \cup {onPlotImage(World, Image("frame"), p) : p \in PlotArgs}
    \cup {onPlotCameraImage(World, c, p, [filename |-> f], shot) :
            c \in CameraArgs, p \in PlotArgs, f \in BOOLEAN, shot \in CameraShots}
    \cup {onGenericCall(World, call[1], call[2]) : call \in GenericCalls}
    \cup {onStartScan(World, <<>>)}

\* no call in calls turns a ready flag that is false to true
RaiseNoFlag(calls) ==
  \A w \in calls :
    /\ w.script.dataReady => script.dataReady
    /\ w.script.allDataReady => script.allDataReady
    /\ w.script.analysisReady => script.analysisReady

\* C9 as stated: a ready flag that is false becomes true only by its own event
\* handler; no other operation of the handler sets a ready flag to true.
C9_OnlyOwnHandlerRaisesFlag ==
  /\ [][/\ RaisesData => Data
        /\ RaisesAllData => AllData
        /\ RaisesAnalysis => AnalysisResult]_vars
  /\ [](RaiseNoFlag(OtherCommandCalls))

\* C9 amended: a ready flag that is false becomes true only by its own event
\* handler or by onStopScript (called directly or through
\* onStopScriptFromScript), which forces all three; no other operation does.
C9_OnlyOwnHandlerOrStopRaisesFlag ==
  /\ [][/\ RaisesData => Data \/ Stops
        /\ RaisesAllData => AllData \/ Stops
        /\ RaisesAnalysis => AnalysisResult \/ Stops]_vars
  /\ [](RaiseNoFlag(OtherCommandCalls
                      \cup {onStartScript(World)}
                      \cup {onPauseScript(World, p) : p \in BOOLEAN}
                      \cup {onRepeat(World, r) : r \in BOOLEAN}
                      \cup {onScanStateChanged(World, st) : st \in {"idle", "running"}}))

C9_Witness ==
  /\ ui.scanNo > 0
  /\ ~script.stopped
  /\ script.dataReady /\ Fresh(script.data)
  /\ ~script.allDataReady
  /\ ~script.analysisReady

\* ------------------------------------------------------------- settings
\* the settings a failed request has to leave alone
Settings(u) ==
  <<u.globalDict, u.globalVariablesRevertDict, u.scan, u.evaluation, u.analysis>>

\* the wrapped function refuses with exactly this message and changes no setting,
\* and neither does the decorated handler
Refuses(r, message) ==
  /\ r.exc = None
  /\ r.error
  /\ r.message = message
  /\ Settings(r.w.ui) = Settings(ui)
  /\ Settings(baseScriptCommand(r).ui) = Settings(ui)

\* C10: onSetGlobal, onSetScan, onSetEvaluation and onSetAnalysis, called with
\* a name that is not registered, return error=True with a message that names
\* the missing item and leave the globals, the revert snapshots and the active
\* scan, evaluation and analysis unchanged.
C10_UnknownNameRefused ==
  /\ \A n \in GlobalArgs \ DOMAIN ui.globalDict, v \in GlobalValues, u \in Units :
       Refuses(func_onSetGlobal(World, n, v, u), <<"Global variable ", n, " does not exist.">>)
  /\ \A n \in ScanArgs \ ScanNames :
       Refuses(func_onSetScan(World, n), <<"Scan ", n, " does not exist.">>)
  /\ \A n \in EvaluationArgs \ EvaluationNames :
       Refuses(func_onSetEvaluation(World, n), <<"Evaluation ", n, " does not exist.">>)
  /\ \A n \in AnalysisArgs \ AnalysisNames :
       Refuses(func_onSetAnalysis(World, n), <<"Analysis ", n, " does not exist.">>)
  /\ [][\A t \in Threads :
          Handled(t) /\ Failed(Top(log')) => Settings(ui') = Settings(ui)]_vars

C10_Witness ==
  /\ log # <<>>
  /\ Top(log).arg =
       [type |-> "tuple", error |-> TRUE, message |-> <<"Scan ", "Scan_B", " does not exist.">>]
  /\ ui.scan = "Scan_C"
  /\ ui.globalDict["g"] = Q(2, "MHz")
  /\ "g" \in DOMAIN ui.globalVariablesRevertDict

\* ------------------------------------------------------ validation failures
\* the outcomes of the handlers that check a name, called on the current state
\* with every name a script may give
ValidatingCalls ==
  {func_onSetGlobal(World, n, v, u) : n \in GlobalArgs, v \in GlobalValues, u \in Units}
    \cup {func_onSetScan(World, n) : n \in ScanArgs}
    \cup {func_onSetEvaluation(World, n) : n \in EvaluationArgs}
    \cup {func_onSetAnalysis(World, n) : n \in AnalysisArgs}
    \cup {func_onSetAWG(World, a, n) : a \in AWGArgs, n \in AWGSettingArgs}
    \cup {func_onProgramAWG(World, a) : a \in AWGArgs}
    \cup {func_onCreateTrace(World, tr, p) : tr \in TraceArgs, p \in TracePlotArgs}
    \cup {func_onCloseTrace(World, tr) : tr \in TraceArgs}
    \cup {func_onFit(World, f, tr) : f \in FitArgs, tr \in TraceArgs}
    \cup {plotList(World, x, y, tr, ov) :
            x \in PointLists, y \in PointLists, tr \in TraceArgs, ov \in BOOLEAN}

\* events holds the error message written to the console at a place after i
ConsoleErrorAfter(events, i, message) ==
  \E j \in DOMAIN events :
    /\ i < j
    /\ events[j].ev = "console"
    /\ events[j].arg = [type |-> "console", message |-> message, error |-> TRUE]

\* the wrapped function refused the request: it returned error=True and a message
Refused(e) == e.ev = "returned" /\ e.arg.error /\ Truthy(e.arg.message)

\* C11: when a decorated handler refuses a request for an unknown global, scan,
\* evaluation, analysis, AWG, plot, trace or fit name, the message is written
\* to the console as an error and script.exception becomes a ScriptException
\* that carries the message.
C11_ValidationFailureSurfaced ==
  /\ [](\A r \in ValidatingCalls :
          r.error =>
            LET w == baseScriptCommand(r)
            IN  /\ Truthy(r.message)
                /\ ConsoleErrorAfter(w.events, 0, r.message)
                /\ w.script.exception = ScriptException(r.message))
  /\ [](\A i \in Ends(log) : Refused(log[i]) => ConsoleErrorAfter(log, i, log[i].arg.message))
  /\ [][\A t \in Threads :
          Handled(t) /\ Refused(Top(log')) =>
            script'.exception = ScriptException(Top(log').arg.message)]_vars

C11_Witness ==
  \E t \in Threads :
    /\ thr[t] = [pc |-> "woken", cv |-> "guiWait"]
    /\ ~script.stopped
    /\ "tr" \in DOMAIN ui.scriptTraces
    /\ script.exception = ScriptException(<<"Fit '", "NoFit", "' does not exist.">>)
    /\ ConsoleErrorAfter(log, 0, <<"Fit '", "NoFit", "' does not exist.">>)

\* the slot call that serves thread t's generic call getGlobal(name)
GetGlobalCall(t, name) ==
  Slot(t, "generic", onGenericCall(World, "getGlobal", <<name>>))

\* C12: a generic call of getGlobal for a name that is no global variable is
\* reported as a failure: onGenericCall yields error=True and script.exception
\* is set, and no value is delivered in genericResult.
C12_UnknownGetGlobalFails ==
  [][\A t \in Threads, name \in GlobalArgs \ DOMAIN ui.globalDict :
       GetGlobalCall(t, name) =>
         /\ Failed(Top(log'))
         /\ script'.exception # None
         /\ script'.genericResult = script.genericResult]_vars

\* --------------------------------------------------------- revert snapshots
\* the slot call that serves thread t's request onSetGlobal(name, value, unit)
SetGlobalCall(t, name) ==
  \E value \in GlobalValues, unit \in Units :
    Slot(t, "command", onSetGlobal(World, name, value, unit))

\* this step is onStartScript starting the script
Starts == StartScript /\ ~isRunning(World)

\* C13: between two script starts globalVariablesRevertDict[name] is written
\* only by the first successful onSetGlobal on name, with the value the global
\* had immediately before that call; no later step changes it.
C13_RevertSnapshotOnce ==
  [][\A name \in GlobalArgs :
       LET revert == ui.globalVariablesRevertDict
           revert2 == ui'.globalVariablesRevertDict
       IN  /\ name \in DOMAIN revert /\ ~Starts =>
                name \in DOMAIN revert2 /\ revert2[name] = revert[name]
           /\ name \notin DOMAIN revert /\ name \in DOMAIN revert2 =>
                /\ \E t \in Threads : SetGlobalCall(t, name)
                /\ ~Failed(Top(log'))
                /\ revert2[name] = ui.globalDict[name]
           /\ (\E t \in Threads : SetGlobalCall(t, name)) /\ ~Failed(Top(log')) =>
                name \in DOMAIN revert2]_vars

\* a second script run: the snapshot is the value the first run left, and a
\* later onSetGlobal of the run has changed the global again
C13_Witness ==
  /\ "g" \in DOMAIN ui.globalVariablesRevertDict
  /\ ui.globalVariablesRevertDict["g"] = Q(2, "MHz")
  /\ ui.globalDict["g"] = Q(1, "MHz")
  /\ log # <<>>
  /\ Top(log).arg.message = <<"Global variable ", "g", " set to ", "1", " ", "MHz">>

\* ------------------------------------------------------------ after a stop
\* the flags of a stopped script
StoppedFlags(s) ==
  /\ s.stopped
  /\ ~s.paused
  /\ ~s.waitOnScan
  /\ ~s.repeat
  /\ s.analysisReady
  /\ s.dataReady
  /\ s.allDataReady

\* the current state with paused, waitOnScan and repeat set to any values and
\* the three ready flags all set or all cleared
WorldsWithFlags ==
  {[World EXCEPT !.script.paused = f[1], !.script.waitOnScan = f[2],
                 !.script.repeat = f[3], !.script.analysisReady = f[4],
                 !.script.dataReady = f[4], !.script.allDataReady = f[4]] :
     f \in [1..4 -> BOOLEAN]}

\* C14: immediately after onStopScript, stopped is true, paused, waitOnScan and
\* repeat are false, and analysisReady, dataReady and allDataReady are true,
\* whatever the flags were before.
C14_StateAfterStop ==
  /\ [](\A w \in WorldsWithFlags : StoppedFlags(onStopScript(w).script))
  /\ [][Stops => StoppedFlags(script')]_vars

\* a script stopped while it was paused and waiting for data that never came
C14_Witness ==
  \E t \in Threads :
    /\ thr[t] = [pc |-> "woken", cv |-> "pauseWait"]
    /\ StoppedFlags(script)
    /\ script.data = None

Outcomes ==
  {Ret(World, e, m) : e \in BOOLEAN, m \in {NoMessage, <<>>, <<"text">>}}
    \cup {Raise(World, Exc(c, <<"text">>)) : c \in ExceptionClasses}

\* no exception left the handler in this call
ReturnsNormally(events) == \A i \in DOMAIN events : events[i].ev # "propagated"

\* the exception of the failure at place i of events was stored afterwards
Captured(events, i) ==
  \E j \in DOMAIN events :
    i < j /\ events[j].ev = "exception" /\ events[j].arg = Failure(events[i])

\* C16: no exception leaves a decorated handler: whatever the wrapped function
\* raises or returns, the fault is stored in script.exception and the handler
\* returns normally to the GUI thread.
C16_NoExceptionPropagates ==
  /\ \A r \in Outcomes :
       LET w == baseScriptCommand(r)
       IN  /\ ReturnsNormally(w.events)
           /\ \A i \in Ends(w.events) :
                Failed(w.events[i]) =>
                  Captured(w.events, i) /\ w.script.exception = Failure(w.events[i])
  /\ ReturnsNormally(log)
  /\ \A i \in Ends(log) : Failed(log[i]) => Captured(log, i)

C16_Witness ==
  \E t \in Threads :
    /\ thr[t] = [pc |-> "woken", cv |-> "guiWait"]
    /\ ~script.stopped
    /\ script.exception = Exc("KeyError", <<"noPlot">>)
    /\ ReturnsNormally(log)

\* ------------------------------------------------------------ script.mutex
\* the calls of the AWG, trace and fit commands on the current state
TraceCommandCalls ==
  {onSetAWG(World, a, n) : a \in AWGArgs, n \in AWGSettingArgs}
    \cup {onProgramAWG(World, a) : a \in AWGArgs}
    \cup {onCreateTrace(World, tr, p) : tr \in TraceArgs, p \in TracePlotArgs}
    \cup {onCloseTrace(World, tr) : tr \in TraceArgs}
    \cup {onFit(World, f, tr) : f \in FitArgs, tr \in TraceArgs}
    \cup {onPlotList(World, x, y, tr, ov) :
            x \in PointLists, y \in PointLists, tr \in TraceArgs, ov \in BOOLEAN}

\* every acquisition in events is made with the mutex free and every release
\* with the mutex held: sections do not nest and each is closed
Scoped(events) ==
  \A i \in DOMAIN events :
    /\ events[i].ev = "lock" => ~events[i].held
    /\ events[i].ev = "unlock" => events[i].held
    /\ events[i].ev = "lock" =>
         \E j \in DOMAIN events : i < j /\ events[j].ev = "unlock"

\* C17: script.mutex is held only inside a scoped section of a handler call:
\* every call that acquires it releases it on every path, also when the guarded
\* code raises, and the mutex is free when the call is over.
C17_MutexScoped ==
  /\ \A w \in ButtonAndEventCalls \cup OtherCommandCalls \cup TraceCommandCalls
                \cup {onStopScriptFromScript(World)} :
       Scoped(w.events) /\ ~w.mutex
  /\ Scoped(log)
  /\ log # <<>> => ~log[Len(log)].held

\* the function a generic call invoked raised inside the guarded section
C17_Witness ==
  /\ log # <<>>
  /\ Top(log).arg =
       [type |-> "tuple", error |-> TRUE,
        message |-> <<"'ScriptHandler' object has no attribute '", "noSuchMethod", "'">>]
  /\ \E i \in DOMAIN log : log[i].ev = "unlock"
  /\ gui = "idle"

\* C18: onGenericCall completes and releases script.mutex for every method
\* name it is given, methods that take script.mutex themselves included: the
\* GUI thread never waits for the mutex it holds.
C18_GenericCallNeverSelfBlocks ==
  [][\A t \in Threads :
       GenericMethodCall(t) =>
         /\ gui' = "idle"
         /\ Scoped(log')
         /\ Top(log').ev = "returned"]_vars

\* --------------------------------------------------------- scans and stops
\* the three ready flags of s are set
AllReady(s) == s.analysisReady /\ s.dataReady /\ s.allDataReady

\* C19: once onStopScript has stopped the script and forced the ready flags,
\* a script request that was queued when the stop happened and is handled
\* afterwards clears no ready flag, does not set scanIsRunning and starts no
\* scan; the script stays stopped until the next onStartScript.
C19_QueuedRequestAfterStop ==
  [][\A t \in Threads :
       Handled(t) /\ script.stopped /\ AllReady(script) =>
         /\ script'.stopped
         /\ AllReady(script')
         /\ script'.scanIsRunning => script.scanIsRunning
         /\ ui'.scanNo = ui.scanNo]_vars

\* the places of events where onStartScan cleared the flags / started the scan
Clears(events) == {i \in DOMAIN events : events[i].ev = "clearReady"}

StartsOfScan(events) == {i \in DOMAIN events : events[i].ev = "onStart"}

\* in events the flags are cleared, with the mutex held, before the experiment
\* is started, and not after
ClearedBeforeStart(events) ==
  \A j \in StartsOfScan(events) :
    /\ \E i \in Clears(events) : i < j /\ events[i].held
    /\ \A i \in Clears(events) : i < j

\* C20: onStartScan sets scanIsRunning and clears dataReady, allDataReady and
\* analysisReady before it starts the experiment, so that a result of the scan
\* it starts is never erased by the clearing: a flag the scan's event raised
\* stays raised until the consumer takes the value or another scan is started.
C20_ClearedBeforeScanStarts ==
  /\ [](LET w == onStartScan(World, <<>>)
        IN  /\ StartsOfScan(w.events) # {}
            /\ ClearedBeforeStart(w.events)
            /\ w.script.scanIsRunning
            /\ ~w.script.dataReady /\ ~w.script.allDataReady /\ ~w.script.analysisReady)
  /\ [](ClearedBeforeStart(log))
  /\ [][\A t \in Threads :
          StartScan(t) =>
            /\ script'.scanIsRunning
            /\ ~script'.dataReady /\ ~script'.allDataReady /\ ~script'.analysisReady
            /\ ui'.scanNo = ui.scanNo + 1]_vars
  /\ [][script.dataReady /\ Fresh(script.data) /\ ~script'.dataReady =>
          \/ \E t \in Threads : ScriptResume(t)
          \/ \E t \in Threads : StartScan(t) /\ ui'.scanNo # script.data.scan]_vars

\* the scan the script started has delivered its data and the script, woken
\* on dataWait, finds it
C20_Witness ==
  \E t \in Threads :
    /\ thr[t] = [pc |-> "woken", cv |-> "dataWait"]
    /\ StartsOfScan(log) # {}
    /\ script.scanIsRunning
    /\ script.dataReady
    /\ Fresh(script.data)
    /\ ~script.stopped
    /\ ~script.allDataReady

\* ------------------------------------------------- the decorator's mapping
\* the message is a text: it is neither None nor ''
HasText(message) == message \notin {NoMessage, <<>>}

\* the place in events where the outermost function came back
TopIndex(events) == CHOOSE i \in Ends(events) : \A j \in Ends(events) : j <= i

\* what the decorator wrote to the console after the function came back at i
ConsoleWrites(events, i) ==
  {j \in DOMAIN events : i < j /\ events[j].ev = "console"}

\* the exceptions the decorator stored after the function came back at i
Stores(events, i) ==
  {j \in DOMAIN events : i < j /\ events[j].ev = "exception"}

\* after place i of events the decorator did what the (error, message) pair
\* returned there asks for
Mapped(events, i) ==
  LET error == events[i].arg.error
      message == events[i].arg.message
      writes == ConsoleWrites(events, i)
      stores == Stores(events, i)
  IN  /\ ~error /\ ~HasText(message) => writes = {} /\ stores = {}
      /\ ~error /\ HasText(message) =>
           /\ Cardinality(writes) = 1
           /\ \A j \in writes :
                events[j].arg = [type |-> "console", message |-> message, error |-> FALSE]
           /\ stores = {}
      /\ error /\ HasText(message) =>
           /\ Cardinality(writes) = 1
           /\ \A j \in writes :
                events[j].arg = [type |-> "console", message |-> message, error |-> TRUE]
           /\ Cardinality(stores) = 1
           /\ \A j \in stores : events[j].arg = ScriptException(message)
      /\ error /\ ~HasText(message) =>
           /\ writes = {}
           /\ Cardinality(stores) = 1
           /\ \A j \in stores : events[j].arg = ScriptException(<<>>)

\* the (error, message) pairs a wrapped function can return
ReturnedPairs ==
  {Ret(World, e, m) : e \in BOOLEAN, m \in {NoMessage, <<>>, <<"text">>}}

\* C21: the decorator maps the (error, message) a handler returns: (False, no
\* message) writes nothing and sets no exception; (False, message) writes the
\* message as a non-error and sets no exception; (True, message) writes the
\* message as an error and sets script.exception to ScriptException(message);
\* (True, no message) sets ScriptException('') and writes nothing.
C21_DecoratorMapsResult ==
  /\ \A r \in ReturnedPairs :
       LET w == baseScriptCommand(r)
       IN  /\ Mapped(w.events, TopIndex(w.events))
           /\ w.script.exception =
                IF r.error
                  THEN ScriptException(IF HasText(r.message) THEN r.message ELSE <<>>)
                  ELSE script.exception
  /\ log # <<>> /\ Top(log).ev = "returned" => Mapped(log, TopIndex(log))

\* a handler returned (False, message): the camera was added
C21_Witness ==
  \E t \in Threads :
    /\ thr[t] = [pc |-> "woken", cv |-> "guiWait"]
    /\ Top(log).ev = "returned"
    /\ Top(log).arg = [type |-> "tuple", error |-> FALSE, message |-> <<"Camera ", "cam", " added">>]
    /\ ConsoleWrites(log, TopIndex(log)) # {}
    /\ script.exception = None

\* ---------------------------------------------------------------------------
\* C22  In ServerProcess.run every command received from commandPipe gets
\* exactly one reply, the value the command returned or the exception raised
\* on the way (an unknown command name gives an AttributeError), and a failed
\* command leaves the loop serving: running is as the command left it and the
\* next turn of the loop follows.
IsException(reply) == reply.type \in {"AttributeError", "TypeError", "IOError"}

Answers(c, reply) ==
  CASE c.commandstring = "noSuchCommand" -> reply.type = "AttributeError"
    [] c.commandstring = "__setattr__" -> reply.type = "None"
    [] c.commandstring = "readDataFifo" /\ c.argument # <<>> -> reply.type = "TypeError"
    [] OTHER -> reply.type \in {"None", "IOError"}

Answered(s) ==
  /\ Len(s.replies) = Len(s.received)
  /\ \A i \in DOMAIN s.received : Answers(s.received[i], s.replies[i])

C22_EveryCommandAnswered ==
  [][/\ Answered(srv')
     /\ Len(srv'.received) > Len(srv.received) =>
          /\ Len(srv'.received) = Len(srv.received) + 1
          /\ Len(srv'.replies) = Len(srv.replies) + 1
          /\ IsException(srv'.replies[Len(srv'.replies)]) =>
               srv'.pc = "fifo" /\ srv'.running = srv.running]_vars

\* a command with an unknown name was answered with its exception and the
\* command after it with its return value
C22_Witness ==
  /\ Len(srv.replies) = 2
  /\ srv.received[1].commandstring = "noSuchCommand"
  /\ srv.replies[1].type = "AttributeError"
  /\ srv.received[2].commandstring = "readDataFifo"
  /\ srv.replies[2] = None

\* ---------------------------------------------------------------------------
\* C23  Whenever run ends, for whatever reason, a FinishException was put on
\* dataQueue before the queue was closed.
C23_FinishAlwaysAnnounced ==
  \A i \in DOMAIN srv.ops :
    srv.ops[i].queue = "dataQueue" /\ srv.ops[i].op = "close" =>
      \E j \in 1..(i - 1) :
        /\ srv.ops[j].queue = "dataQueue"
        /\ srv.ops[j].op = "put"
        /\ srv.ops[j].item.type = "FinishException"

\* ---------------------------------------------------------------------------
\* C24  When the loop ends because running is false, run puts FinishException
\* on dataQueue, once and with no FinishException there before, closes
\* dataQueue, puts None on loggingQueue and closes loggingQueue, in this order
\* (the records of the logger apart, which the model leaves out); nothing is
\* put on either queue afterwards.
Finishes(ops) ==
  {i \in DOMAIN ops : ops[i].op = "put" /\ ops[i].item.type = "FinishException"}

OrderlyEnd ==
  <<[queue |-> "dataQueue", op |-> "put", item |-> [type |-> "FinishException", msg |-> <<>>]],
    [queue |-> "dataQueue", op |-> "close", item |-> [type |-> "None"]],
    [queue |-> "loggingQueue", op |-> "put", item |-> [type |-> "None"]],
    [queue |-> "loggingQueue", op |-> "close", item |-> [type |-> "None"]]>>

C24_OrderlyEndWhenStopped ==
  [][/\ srv.pc = "loop" /\ ~srv.running /\ srv'.pc = "done" =>
          /\ Finishes(srv.ops) = {}
          /\ srv'.ops = srv.ops \o OrderlyEnd
     /\ srv.pc = "done" => srv'.ops = srv.ops /\ srv'.pc = "done"]_vars

\* run ended after running was set false, with a data item put before the
\* FinishException
C24_Witness ==
  /\ srv.pc = "done"
  /\ ~srv.running
  /\ Len(srv.ops) = 5
  /\ srv.ops[1].item.type = "data"
  /\ Finishes(srv.ops) = {2}
  /\ srv.ops[5] = [queue |-> "loggingQueue", op |-> "close", item |-> [type |-> "None"]]

\* ---------------------------------------------------------------------------
\* C25  Once a command sets running to false, run sends that command's reply,
\* calls readDataFifo once more, receives no further command and terminates.
C25_StopsAfterOneMoreRead ==
  /\ [][/\ srv.running /\ ~srv'.running =>
             /\ Len(srv'.received) = Len(srv.received) + 1
             /\ Len(srv'.replies) = Len(srv.replies) + 1
             /\ srv'.pc = "fifo"
             /\ srv'.fifoCallsSinceStop = 0
        /\ ~srv.running => srv'.received = srv.received /\ ~srv'.running
        /\ srv'.fifoCallsSinceStop <= 1
        /\ ~srv.running /\ srv.pc # "done" /\ srv'.pc = "done" =>
             srv'.fifoCallsSinceStop = 1]_vars
  /\ (~srv.running ~> srv.pc = "done")

\* run ended after the command that set running false was answered, with a
\* later command left in the pipe
C25_Witness ==
  /\ srv.pc = "done"
  /\ ~srv.running
  /\ srv.fifoCallsSinceStop = 1
  /\ Len(srv.received) = 1
  /\ srv.replies = <<None>>
  /\ srv.inbox # <<>>

\* ---------------------------------------------------------------------------
\* C26  Every trace created by onCreateTrace is either still open, and then
\* neither saved nor registered yet, or was saved once and registered in the
\* measurement log once, whatever creates, plots, closes and finishes there
\* were, a create under a name that is still open included.
Count(seq, x) == Cardinality({i \in DOMAIN seq : seq[i] = x})

OpenIds == {ui.scriptTraces[n].id : n \in DOMAIN ui.scriptTraces}

C26_EveryTraceSavedOnce ==
  \A id \in 1..ui.tracesCreated :
    IF id \in OpenIds
      THEN Count(ui.savedTraces, id) = 0 /\ Count(ui.measurementLog, id) = 0
      ELSE Count(ui.savedTraces, id) = 1 /\ Count(ui.measurementLog, id) = 1

\* ---------------------------------------------------------------------------
\* C27  A trace is in the trace UI at most once, and an open trace is there
\* exactly when it has points.  A plot to an unknown trace or with x and y of
\* unequal length returns an error and leaves the traces and the trace UI as
\* they were; any other plot succeeds: the first one to a trace sets its
\* points and adds it to the trace UI, a later one appends the points, or
\* replaces them when overwrite is set, and adds nothing to the trace UI.
C27_TraceAddedOnFirstPlot ==
  /\ \A id \in 1..ui.tracesCreated : Count(ui.traceui, id) <= 1
  /\ \A n \in DOMAIN ui.scriptTraces :
       ui.scriptTraces[n].x # <<>> <=> Count(ui.traceui, ui.scriptTraces[n].id) = 1
  /\ \A xList \in PointLists, yList \in PointLists, tr \in TraceArgs, overwrite \in BOOLEAN :
       LET r == plotList(World, xList, yList, tr, overwrite)
       IN  IF tr \notin DOMAIN ui.scriptTraces \/ Len(xList) # Len(yList)
             THEN r.error /\ r.w.ui = ui
             ELSE LET old == ui.scriptTraces[tr]
                      new == r.w.ui.scriptTraces[tr]
                  IN  /\ ~r.error
                      /\ new.id = old.id
                      /\ IF old.x = <<>>
                           THEN /\ r.w.ui.traceui = Append(ui.traceui, old.id)
                                /\ new.x = xList /\ new.y = yList
                           ELSE /\ r.w.ui.traceui = ui.traceui
                                /\ new.x = IF overwrite THEN xList ELSE old.x \o xList
                                /\ new.y = IF overwrite THEN yList ELSE old.y \o yList

\* the second trace created was added after the first and holds the points
\* of two plots, the second appended to the first
C27_Witness ==
  /\ "tr" \in DOMAIN ui.scriptTraces
  /\ ui.scriptTraces["tr"].id = 2
  /\ ui.scriptTraces["tr"].x = <<1, 2, 1>>
  /\ ui.traceui = <<1, 2>>
  /\ Top(log).ev = "returned"

\* ---------------------------------------------------------------------------
\* C28  globalVariablesRevertDict[name], when present, holds the value the
\* global had when the script was started, whatever onAddGlobal and
\* onSetGlobal calls on that name there were since.
C28_RevertHoldsStartValue ==
  \A name \in DOMAIN ui.globalVariablesRevertDict :
    /\ name \in DOMAIN atStart
    /\ ui.globalVariablesRevertDict[name] = atStart[name]

\* ---------------------------------------------------------------------------
\* C29  onStartScript changes nothing while the script is running.  When the
\* script is not running, the thread it starts finds paused false, stopped
\* false, exception None and no revert snapshot, whatever they were before the
\* call, and they are so after the call.
ThreadAlive(w) == ~(\A t \in Threads : w.thr[t].pc \in {"idle", "done"})

\* the current state with stopped, paused, exception and the revert snapshot
\* set to any values
StaleWorlds ==
  {[World EXCEPT !.script.stopped = f[1], !.script.paused = f[2],
                 !.script.exception = e, !.ui.globalVariablesRevertDict = d] :
     f \in [1..2 -> BOOLEAN],
     e \in {[type |-> "None"], [type |-> "ScriptException", message |-> <<"text">>]},
     d \in {[n \in {} |-> [type |-> "None"]], [n \in {"g"} |-> [type |-> "Q", m |-> 2, u |-> "MHz"]]}}

Clean(s, reverts) ==
  /\ ~s.paused
  /\ ~s.stopped
  /\ s.exception = [type |-> "None"]
  /\ reverts = {}

StartsClean(w) ==
  LET r == onStartScript(w)
      starts == {i \in DOMAIN r.events : r.events[i].ev = "start"}
  IN  IF ThreadAlive(w)
        THEN r = w
        ELSE /\ Clean(r.script, DOMAIN r.ui.globalVariablesRevertDict)
             /\ \A t \in Threads : r.thr[t].pc = "run"
             /\ Cardinality(starts) = 1
             /\ \A i \in starts : Clean(r.events[i].arg, r.events[i].arg.reverts)

C29_StartResetsBeforeRun ==
  /\ [](\A w \in StaleWorlds : StartsClean(w))
  /\ [][/\ StartScript /\ ThreadAlive(World) => UNCHANGED <<script, ui, thr>>
        /\ ~ThreadAlive(World) /\ (\E t \in Threads : thr'[t].pc = "run") =>
             Clean(script', DOMAIN ui'.globalVariablesRevertDict)]_vars

\* a later run has just been started: the run before it had changed the
\* global g
C29_Witness ==
  /\ \A t \in Threads : thr[t].pc = "run"
  /\ atStart["g"] = Q(2, "MHz")
  /\ Clean(script, DOMAIN ui.globalVariablesRevertDict)

\* ---------------------------------------------------------------------------
\* C30  script.exception changes only in a call of a decorated handler whose
\* function fails, or to None in an onStartScript that starts the script; a
\* call of a decorated handler whose function succeeds leaves it as it was.
C30_ExceptionWrittenOnlyOnFailure ==
  [][/\ script'.exception # script.exception =>
          \/ Starts /\ script'.exception = None
          \/ (\E t \in Threads : Handled(t)) /\ Failed(Top(log'))
     /\ (\E t \in Threads : Handled(t)) /\ ~Failed(Top(log')) =>
          script'.exception = script.exception]_vars

\* ---------------------------------------------------------------------------
\* C31  onPauseScript(p) sets script.paused to p and changes no other field
\* of the Script; it takes script.mutex once and releases it.  With p false it
\* signals pauseWait once, with the mutex held, and the threads blocked on
\* pauseWait are woken; with p true it signals nothing and no thread is woken.
SignalsOf(events) == {i \in DOMAIN events : events[i].ev = "wake"}

PauseAsSpecified(w, p) ==
  LET r == onPauseScript(w, p)
      signals == SignalsOf(r.events)
  IN  /\ r.script = [w.script EXCEPT !.paused = p]
      /\ r.ui = w.ui
      /\ ~r.mutex
      /\ Cardinality({i \in DOMAIN r.events : r.events[i].ev = "lock"}) = 1
      /\ r.events[1].ev = "lock"
      /\ r.events[Len(r.events)].ev = "unlock"
      /\ IF p
           THEN signals = {} /\ r.thr = w.thr
           ELSE /\ Cardinality(signals) = 1
                /\ \A i \in signals : r.events[i].arg.name = "pauseWait" /\ r.events[i].held
                /\ \A t \in Threads :
                     r.thr[t] = IF w.thr[t] = [pc |-> "wait", cv |-> "pauseWait"]
                                  THEN [pc |-> "woken", cv |-> "pauseWait"]
                                  ELSE w.thr[t]

C31_PauseSignalsOnlyOnResume ==
  /\ [](\A p \in BOOLEAN : PauseAsSpecified(World, p))
  /\ [][PauseScript =>
          /\ script'.paused => thr' = thr
          /\ ~script'.paused =>
               \A t \in Threads : BlockedOn(t, "pauseWait") => thr'[t].pc = "woken"]_vars

\* a thread that was blocked on pauseWait has been woken by a resume, with the
\* script not stopped
C31_Witness ==
  \E t \in Threads :
    /\ thr[t] = [pc |-> "woken", cv |-> "pauseWait"]
    /\ ~script.paused
    /\ ~script.stopped

\* ---------------------------------------------------------------------------
\* C32  setValue on channel 'Enable Remote Control' with a quantity without
\* unit whose magnitude is none of 0, 1 and 255 raises ValueError and sends
\* the controller nothing; with a magnitude of 0, 1 or 255 it sends exactly
\* that mode to all channels, once, and returns the quantity it was given.
ModeOf(tenths) ==
  CASE tenths = 0 -> 0
    [] tenths = 10 -> 1
    [] tenths = 2550 -> 255

ModeSetAsAsked(d, v) ==
  LET r == setValue(d, "Enable Remote Control", v)
  IN  IF v.tenths \in {0, 10, 2550}
        THEN /\ r.exc = [type |-> "None"]
             /\ r.value = v
             /\ r.calls = <<[call |-> "set_mode_all", channel |-> "all", arg |-> ModeOf(v.tenths)]>>
             /\ \A c \in DOMAIN r.mode : r.mode[c] = ModeOf(v.tenths)
             /\ r.volt = d.volt
        ELSE /\ r.exc.type = "ValueError"
             /\ r.calls = <<>>
             /\ r.mode = d.mode
             /\ r.volt = d.volt

C32_ModeValidated ==
  \A v \in QuantityArgs : v.u = "" => ModeSetAsAsked(dc, v)

====
